---- MODULE Spec2Model ----
(***************************************************************************)
(* Presence fusion and state synchronisation of the smart-classroom        *)
(* scripts:                                                                *)
(*   - the debouncer  ForceGPUYOLODetector.stable_presence_detection       *)
(*     (src/AI_detection/AI_Presence_Detection.py),                        *)
(*   - the timeout fuser SimplePresenceDetector.hybrid_presence_detection  *)
(*     (src/AI_detection/simple_presence.py),                              *)
(*   - the MQTT -> Firebase bridge (src/pi_mqtt_firebase_bridge.py),       *)
(*   - the run_detection loops of the four detectors                       *)
(*     (src/AI_detection/*.py) and the loop of the MQ-135 publisher        *)
(*     (src/pi_mq135_publisher.py), which write to the same remote store.  *)
(* Each component has its own specification over its own variables; the    *)
(* variables of the other components stay at their initial values.         *)
(***************************************************************************)
EXTENDS Integers, Sequences, FiniteSets, TLC

VARIABLES
    \* ---- debouncer (ForceGPUYOLODetector) ----
    detection_history,      \* self.detection_history: list of booleans
    deb_inputs,             \* ghost: every person_count passed so far, in order
    deb_ret,                \* ghost: value returned by the latest call
    \* ---- timeout fuser (SimplePresenceDetector) ----
    clock,                  \* time.time(), in whole seconds
    last_person_detected,   \* self.last_person_detected
    hyb,                    \* ghost: arguments, time and result of the latest call
    last_hog_at,            \* ghost: time of the latest call with hog_detected (t0)
    quiet,                  \* ghost: no call since t0 had hog or motion true
    \* ---- bridge (pi_mqtt_firebase_bridge.py) ----
    state,                  \* the lighting section (line 34)
    climate_state,          \* the climate section (line 44)
    lock,                   \* threading.Lock(): the thread holding it, or NoThread
    pc,                     \* per handler thread: where it stands in on_message
    msg,                    \* per handler thread: topic, decoded data, timestamp
    todo,                   \* per handler thread: the sections still to patch
    payload,                \* per handler thread: the copy being sent
    bclock,                 \* the latest reading of int(time.time() * 1000)
    received,               \* ghost: messages each handler thread has taken
    hist,                   \* ghost: per thread, its latest message: the outcome,
                            \*   the sections before the merge, what was sent
    ever_known,             \* ghost: nullable readings that have held a value
    prev,                   \* ghost (SpecCommute): the message handled before the
                            \*   latest one, as hist recorded it
    trail,                  \* ghost (SpecScenario): the latest three messages
                            \*   taken by the network thread, oldest first
    latest,                 \* ghost (SpecLatest): per topic, the data of the
                            \*   latest message taken on it
    connection,             \* the MQTT connection as the network loop sees it
    subscriptions,          \* the topics the broker delivers to this client
    lost,                   \* ghost: both sections and the message count at
                            \*   the latest disconnect
    remote,                 \* the remote store: the document of each section
    heap,                   \* the nested dict objects ({'on', 'pwm'}) by id
    refs,                   \* the objects state['led'] and climate_state['fan']
                            \*   refer to
    held,                   \* per handler thread: the nested object its
                            \*   payload refers to
    \* ---- the other debouncers (realtime_presence.py, smart_lighting_ai.py,
    \*      pc_stream_client.py) ----
    var_history,            \* per detector: self.detection_history
    var_inputs,             \* ghost, per detector: every count passed so far
    var_ret,                \* ghost, per detector: the latest value returned
    \* ---- air-quality publisher (pi_mq135_publisher.py) ----
    aq_raw,                 \* the latest reading classified
    aq_result,              \* what classify_air_quality returned for it
    aq_written,             \* ghost: the aqRaw and aqStatus of the latest write
                            \*   the publisher made to the remote store
    \* ---- the run_detection loops of the detectors ----
    gpu,                    \* ForceGPUYOLODetector: self.last_update, the time
                            \*   of the latest frame, the latest update_firebase
    smart,                  \* SmartLightingAI: self.last_firebase_update, the
                            \*   time of the latest frame, the latest calls
    realtime,               \* AIPresenceDetector: frame_count, person_count and
                            \*   the inference run behind each window sample
    simple,                 \* SimplePresenceDetector: the timers, hog_detected,
                            \*   motion_detected, final_presence of the loop
    \* ---- the messages between a detector and the bridge ----
    mqtt_queue,             \* published by the detector, not yet handed to
                            \*   on_message, oldest first
    ticks,                  \* ghost: the triples update_firebase has published
    between                 \* ghost, per handler thread: another thread merged
                            \*   a detection message since this one's first copy

debouncer_vars == <<detection_history, deb_inputs, deb_ret>>
fuser_vars == <<clock, last_person_detected, hyb, last_hog_at, quiet>>
bridge_vars == <<state, climate_state, lock, pc, msg, todo, payload, bclock,
                 received, hist, ever_known, prev, trail, latest,
                 connection, subscriptions, lost, remote, heap, refs, held,
                 aq_written, gpu, smart, realtime, simple, mqtt_queue, ticks,
                 between>>
peer_vars == <<aq_written, gpu, smart, realtime, simple, mqtt_queue, ticks,
               between>>
env_vars == <<connection, subscriptions, lost, remote, heap, refs, held,
              peer_vars>>
variant_vars == <<var_history, var_inputs, var_ret>>
aq_vars == <<aq_raw, aq_result>>

(***************************************************************************)
(* Bounds of the model.                                                    *)
(***************************************************************************)
MaxCalls == 6       \* calls to stable_presence_detection in one run
MaxCount == 2       \* largest per-frame person count fed to the debouncer
BootTime == 20      \* time.time() when the fuser is constructed (> timeout)
MaxTicks == 13      \* seconds the fuser is observed for after BootTime
MaxMsgs == 3        \* messages the bridge's network thread handles in one run
MaxPairMsgs == 2    \* messages handled in one run of SpecCommute
MaxStamp == 2       \* largest reading of the bridge's millisecond clock
NumHandlers == 2    \* handler threads run side by side in SpecConcurrent
MaxPublishMsgs == 2 \* messages handled in one run of SpecPublish
MaxScenarioMsgs == 4 \* messages handled in one run of SpecScenario
MaxLatestMsgs == 4  \* messages handled in one run of SpecLatest
MaxTransportMsgs == 2 \* messages handled in one run of SpecTransport
MaxRaw == 450       \* largest MQ-135 reading classified
MaxFrames == 4      \* frames read by a run_detection loop
TicksPerSecond == 3 \* resolution of the clock of SimplePresenceDetector's loop
MaxMirrorMsgs == 2   \* messages handled in one run of SpecMirror
MaxUpdates == 2      \* calls of update_firebase in one run of SpecTicks

(***************************************************************************)
(* Debouncer: ForceGPUYOLODetector.stable_presence_detection               *)
(***************************************************************************)
history_size == 4

\* sum(self.detection_history): the number of True entries
RECURSIVE sum(_)
sum(h) == IF h = <<>> THEN 0 ELSE (IF Head(h) THEN 1 ELSE 0) + sum(Tail(h))

\* a window that evicts the newest observation instead of the oldest
push_history_evicting_newest(h, person_count) ==
    LET appended == Append(h, person_count > 0)
    IN  IF Len(appended) > history_size
        THEN SubSeq(appended, 1, history_size) ELSE appended

\* lines 124-126: append the observation, evict the oldest beyond history_size
push_history(h, person_count) ==
    LET appended == Append(h, person_count > 0)
    IN  IF Len(appended) > history_size THEN Tail(appended) ELSE appended

\* a debouncer that applies the majority rule before the off short-circuit
stable_result_no_immediate_off(h, person_count) ==
    IF Len(h) >= 3 THEN sum(h) >= 2 ELSE person_count > 0

\* a debouncer that asks for three positives instead of two
stable_result_three_positives(h, person_count) ==
    IF person_count = 0 THEN FALSE
    ELSE IF Len(h) >= 3 THEN sum(h) >= 3
    ELSE person_count > 0

\* lines 128-135: the value returned, h being the history after the push
stable_result(h, person_count) ==
    IF person_count = 0 THEN FALSE
    ELSE IF Len(h) >= 3 THEN sum(h) >= 2
    ELSE person_count > 0

stable_presence_detection(person_count) ==
    /\ Len(deb_inputs) < MaxCalls
    /\ detection_history' = push_history(detection_history, person_count)
    /\ deb_ret' = stable_result(detection_history', person_count)
    /\ deb_inputs' = Append(deb_inputs, person_count)
    /\ UNCHANGED fuser_vars
    /\ UNCHANGED <<bridge_vars, variant_vars, aq_vars>>

InitDebouncer ==
    /\ detection_history = <<>>
    /\ deb_inputs = <<>>
    /\ deb_ret = FALSE

(***************************************************************************)
(* Timeout fuser: SimplePresenceDetector.hybrid_presence_detection         *)
(***************************************************************************)
person_timeout == 10

\* ghost value: no call with hog_detected has happened yet
NoTime == 0 - 1

\* a fuser whose grace period includes the instant t0 + person_timeout
hybrid_result_inclusive(hog_detected, motion_detected, current_time, last) ==
    IF hog_detected THEN TRUE
    ELSE IF current_time - last <= person_timeout THEN TRUE
    ELSE motion_detected

\* a fuser without the grace period: motion decides as soon as HOG is silent
hybrid_result_no_grace(hog_detected, motion_detected, current_time, last) ==
    IF hog_detected THEN TRUE ELSE motion_detected

\* lines 80-89: the value returned
hybrid_result(hog_detected, motion_detected, current_time, last) ==
    IF hog_detected THEN TRUE
    ELSE IF current_time - last < person_timeout THEN TRUE
    ELSE motion_detected

\* lines 80-81: the new value of self.last_person_detected
hybrid_last(hog_detected, motion_detected, current_time, last) ==
    IF hog_detected THEN current_time ELSE last

hybrid_presence_detection(hog_detected, motion_detected) ==
    LET current_time == clock
    IN  /\ last_person_detected' =
               hybrid_last(hog_detected, motion_detected, current_time,
                           last_person_detected)
        /\ hyb' = [called |-> TRUE, hog |-> hog_detected,
                   motion |-> motion_detected, at |-> current_time,
                   before |-> last_person_detected,
                   ret |-> hybrid_result(hog_detected, motion_detected,
                                         current_time, last_person_detected)]
        /\ last_hog_at' = IF hog_detected THEN current_time ELSE last_hog_at
        /\ quiet' = IF hog_detected THEN TRUE
                    ELSE quiet /\ ~motion_detected
        /\ UNCHANGED <<clock>>
        /\ UNCHANGED debouncer_vars
    /\ UNCHANGED <<bridge_vars, variant_vars, aq_vars>>
        /\ UNCHANGED <<bridge_vars, variant_vars, aq_vars>>

\* time.time() advances between two calls
Tick ==
    /\ clock < BootTime + MaxTicks
    /\ clock' = clock + 1
    /\ UNCHANGED <<last_person_detected, hyb, last_hog_at, quiet>>
    /\ UNCHANGED debouncer_vars
    /\ UNCHANGED <<bridge_vars, variant_vars, aq_vars>>

InitFuser ==
    /\ clock = BootTime
    /\ last_person_detected = 0
    /\ hyb = [called |-> FALSE, hog |-> FALSE, motion |-> FALSE, at |-> NoTime,
              before |-> 0, ret |-> FALSE]
    /\ last_hog_at = NoTime
    /\ quiet = FALSE

(***************************************************************************)
(* Python values as the bridge sees them.  A text is a sequence of         *)
(* one-character strings; a number is kept exactly: an int by its value, a *)
(* float by its value in hundredths (inputs carry at most two decimals).   *)
(***************************************************************************)
PyNone == [t |-> "none", n |-> 0, s |-> <<>>]
PyBool(b) == [t |-> "bool", n |-> IF b THEN 1 ELSE 0, s |-> <<>>]
PyInt(i) == [t |-> "int", n |-> i, s |-> <<>>]
PyFloat(hundredths) == [t |-> "float", n |-> hundredths, s |-> <<>>]
PyStr(chars) == [t |-> "str", n |-> 0, s |-> chars]

\* the outcome of an expression: a value, or an exception raised
Ok(v) == [ok |-> TRUE, v |-> v]
Raise == [ok |-> FALSE, v |-> PyNone]

DigitChars == <<"0", "1", "2", "3", "4", "5", "6", "7", "8", "9">>
IsDigit(c) == \E i \in 1..10 : DigitChars[i] = c
DigitVal(c) == (CHOOSE i \in 1..10 : DigitChars[i] = c) - 1
IsSpace(c) == c \in {" ", "\n", "\t", "\r"}

UpperChars == <<"A", "B", "C", "D", "E", "F", "G", "H", "I", "J", "K", "L", "M",
                "N", "O", "P", "Q", "R", "S", "T", "U", "V", "W", "X", "Y", "Z">>
LowerChars == <<"a", "b", "c", "d", "e", "f", "g", "h", "i", "j", "k", "l", "m",
                "n", "o", "p", "q", "r", "s", "t", "u", "v", "w", "x", "y", "z">>

\* str.lower()
lower(cs) ==
    [i \in 1..Len(cs) |->
        IF \E k \in 1..26 : UpperChars[k] = cs[i]
        THEN LowerChars[CHOOSE k \in 1..26 : UpperChars[k] = cs[i]]
        ELSE cs[i]]

\* str.strip(): leading and trailing whitespace removed
RECURSIVE lstrip(_)
lstrip(cs) == IF cs # <<>> /\ IsSpace(Head(cs)) THEN lstrip(Tail(cs)) ELSE cs
RECURSIVE rstrip(_)
rstrip(cs) ==
    IF cs # <<>> /\ IsSpace(cs[Len(cs)])
    THEN rstrip(SubSeq(cs, 1, Len(cs) - 1)) ELSE cs
strip(cs) == rstrip(lstrip(cs))

\* the value of a non-empty run of digits
RECURSIVE digits_value(_)
digits_value(cs) ==
    IF cs = <<>> THEN 0
    ELSE 10 * digits_value(SubSeq(cs, 1, Len(cs) - 1)) + DigitVal(cs[Len(cs)])
AllDigits(cs) == cs # <<>> /\ \A i \in 1..Len(cs) : IsDigit(cs[i])

HasSign(cs) == cs # <<>> /\ Head(cs) \in {"-", "+"}
Unsigned(cs) == IF HasSign(cs) THEN Tail(cs) ELSE cs
SignOf(cs) == IF cs # <<>> /\ Head(cs) = "-" THEN 0 - 1 ELSE 1

\* int(text): surrounding whitespace, an optional sign, then digits only
\* (texts with underscores between digits are outside the inputs modelled)
int_of_text(cs) ==
    LET body == Unsigned(strip(cs))
    IN  IF AllDigits(body)
        THEN Ok(PyInt(SignOf(strip(cs)) * digits_value(body)))
        ELSE Raise

\* float(text): surrounding whitespace, an optional sign, digits with an
\* optional fraction of at most two digits; the result is in hundredths
\* (exponents, underscores, "inf" and "nan" are outside the inputs modelled)
float_of_text(cs) ==
    LET body == Unsigned(strip(cs))
        dots == {i \in 1..Len(body) : body[i] = "."}
        dot == CHOOSE i \in dots : TRUE
        whole == IF dots = {} THEN body ELSE SubSeq(body, 1, dot - 1)
        frac == IF dots = {} THEN <<>> ELSE SubSeq(body, dot + 1, Len(body))
        hundredths == IF Len(frac) = 0 THEN 0
                      ELSE IF Len(frac) = 1 THEN 10 * digits_value(frac)
                      ELSE digits_value(frac)
    IN  IF /\ Cardinality(dots) <= 1
           /\ Len(frac) <= 2
           /\ (whole # <<>> \/ frac # <<>>)
           /\ (whole = <<>> \/ AllDigits(whole))
           /\ (frac = <<>> \/ AllDigits(frac))
        THEN Ok(PyFloat(SignOf(strip(cs)) * (100 * digits_value(whole) + hundredths)))
        ELSE Raise

\* int(x) of a float: truncation toward zero
trunc_hundredths(h) == IF h >= 0 THEN h \div 100 ELSE 0 - ((0 - h) \div 100)

\* int(v)
py_int(v) ==
    CASE v.t = "int" -> Ok(v)
      [] v.t = "bool" -> Ok(PyInt(v.n))
      [] v.t = "float" -> Ok(PyInt(trunc_hundredths(v.n)))
      [] v.t = "str" -> int_of_text(v.s)
      [] OTHER -> Raise

\* float(v)
py_float(v) ==
    CASE v.t = "float" -> Ok(v)
      [] v.t = "int" -> Ok(PyFloat(100 * v.n))
      [] v.t = "bool" -> Ok(PyFloat(100 * v.n))
      [] v.t = "str" -> float_of_text(v.s)
      [] OTHER -> Raise

\* bool(v): truthiness
py_bool(v) ==
    CASE v.t = "none" -> PyBool(FALSE)
      [] v.t = "str" -> PyBool(v.s # <<>>)
      [] OTHER -> PyBool(v.n # 0)

\* obj.get(key, default) on a decoded JSON object
get(obj, key, default) == IF key \in DOMAIN obj THEN obj[key] ELSE default

(***************************************************************************)
(* The bridge: src/pi_mqtt_firebase_bridge.py                              *)
(***************************************************************************)
\* texts the bridge compares with or stores
S_auto == <<"a", "u", "t", "o">>
S_manual == <<"m", "a", "n", "u", "a", "l">>
S_true == <<"t", "r", "u", "e">>
S_false == <<"f", "a", "l", "s", "e">>
S_null == <<"n", "u", "l", "l">>
S_Good == <<"G", "o", "o", "d">>
S_Poor == <<"P", "o", "o", "r">>
S_Low == <<"L", "o", "w">>
S_High == <<"H", "i", "g", "h">>

\* the subscribed topics (lines 169-181)
T_brightness == "sensors/lighting/brightness"
T_led_state == "sensors/lighting/led_state"
T_mode == "sensors/lighting/mode"
T_temperature == "sensors/climate/temperature"
T_humidity == "sensors/climate/humidity"
T_fan_state == "sensors/climate/fan_state"
T_quality_raw == "sensors/air/quality_raw"
T_quality_status == "sensors/air/quality_status"
T_detection == "ai/presence/detection"
T_count == "ai/presence/count"
T_confidence == "ai/presence/confidence"
Subscribed == {T_brightness, T_led_state, T_mode, T_temperature, T_humidity,
               T_fan_state, T_quality_raw, T_quality_status, T_detection,
               T_count, T_confidence}

\* An MQTT payload: the bytes of a JSON object (kept decoded, as its
\* key -> value mapping) or the bytes of any other text.  InvalidByte stands
\* for a byte that is not valid UTF-8.
InvalidByte == "<ff>"
JsonObject(o) == [kind |-> "obj", obj |-> o, bytes |-> <<"{", "}">>]
Scalar(bytes) == [kind |-> "text", obj |-> <<>>, bytes |-> bytes]

\* line 77: msg.payload.decode('utf-8', errors='ignore') drops invalid bytes
decode_utf8(raw) ==
    [kind |-> raw.kind, obj |-> raw.obj,
     text |-> SelectSeq(raw.bytes, LAMBDA c : c # InvalidByte)]

\* a JSON number: an optional minus, digits without a leading zero, and an
\* optional fraction of at least one digit
IsJsonNumber(cs) ==
    LET body == IF cs # <<>> /\ Head(cs) = "-" THEN Tail(cs) ELSE cs
        dots == {i \in 1..Len(body) : body[i] = "."}
        dot == CHOOSE i \in dots : TRUE
        whole == IF dots = {} THEN body ELSE SubSeq(body, 1, dot - 1)
        frac == IF dots = {} THEN <<>> ELSE SubSeq(body, dot + 1, Len(body))
    IN  /\ Cardinality(dots) <= 1
        /\ AllDigits(whole)
        /\ (Len(whole) = 1 \/ Head(whole) # "0")
        /\ (dots = {} \/ AllDigits(frac))
\* json.loads(data) succeeds: an object, or (after whitespace) a number, a
\* literal or a quoted string
json_loads_ok(data) ==
    \/ data.kind = "obj"
    \/ LET cs == strip(data.text)
       IN  \/ IsJsonNumber(cs)
           \/ cs \in {S_true, S_false, S_null}
           \/ (Len(cs) >= 2 /\ Head(cs) = "\"" /\ cs[Len(cs)] = "\""
                 /\ \A i \in 2..(Len(cs) - 1) : cs[i] \notin {"\"", "\\"})
\* obj.get(...) works on a dict only: on any other decoded value it raises
is_dict(data) == data.kind = "obj"

(* One branch of on_message gives:                                          *)
(*   pre      the statements before `with lock` ran without raising         *)
(*   ok       the statements under the lock ran without raising             *)
(*   lighting the keys of `state` assigned, with their new values           *)
(*   climate  the keys of `climate_state` assigned, with their new values   *)
(*   publish  the sections patched afterwards, in order                     *)
NoUpdate == [x \in {} |-> PyNone]
Branch(pre, ok, lighting, climate, publish) ==
    [pre |-> pre, ok |-> pre /\ ok,
     lighting |-> IF pre /\ ok THEN lighting ELSE NoUpdate,
     climate |-> IF pre /\ ok THEN climate ELSE NoUpdate,
     publish |-> IF pre /\ ok THEN publish ELSE <<>>]

\* lines 80-88
branch_brightness(data) ==
    LET val == IF is_dict(data) THEN Ok(get(data.obj, "ldrRaw", PyNone))
               ELSE int_of_text(data.text)
        conv == IF val.ok THEN py_int(val.v) ELSE Raise
    IN  Branch(val.ok, conv.ok, [x \in {"ldrRaw"} |-> conv.v], NoUpdate,
               <<"lighting">>)

\* lines 89-96
branch_led_state(data) ==
    LET on == py_bool(get(data.obj, "on", PyBool(FALSE)))
        pwm == py_int(get(data.obj, "pwm", PyInt(0)))
    IN  Branch(json_loads_ok(data), is_dict(data) /\ pwm.ok,
               [x \in {"led"} |-> [on |-> on, pwm |-> pwm.v]], NoUpdate,
               <<"lighting">>)

\* a mode branch that sets the mode of both sections and publishes both
branch_mode_both_sections(data) ==
    LET mode == IF strip(data.text) = S_manual THEN PyStr(S_manual)
                ELSE PyStr(S_auto)
    IN  Branch(TRUE, TRUE, [x \in {"mode"} |-> mode], [x \in {"mode"} |-> mode],
               <<"lighting", "climate">>)

\* lines 97-100
branch_mode(data) ==
    Branch(TRUE, TRUE,
           [x \in {"mode"} |->
               IF strip(data.text) = S_manual THEN PyStr(S_manual)
               ELSE PyStr(S_auto)],
           NoUpdate, <<"lighting">>)

\* a temperature branch that stores the decoded value without float()
branch_temperature_unconverted(data) ==
    Branch(json_loads_ok(data), is_dict(data), NoUpdate,
           [x \in {"tempC"} |-> get(data.obj, "c", PyNone)], <<"climate">>)

\* lines 103-107
branch_temperature(data) ==
    LET c == py_float(get(data.obj, "c", PyInt(0)))
    IN  Branch(json_loads_ok(data), is_dict(data) /\ c.ok, NoUpdate,
               [x \in {"tempC"} |-> c.v], <<"climate">>)

\* lines 108-112
branch_humidity(data) ==
    LET rh == py_float(get(data.obj, "rh", PyInt(0)))
    IN  Branch(json_loads_ok(data), is_dict(data) /\ rh.ok, NoUpdate,
               [x \in {"humidity"} |-> rh.v], <<"climate">>)

\* lines 113-122
branch_fan_state(data) ==
    LET on == py_bool(get(data.obj, "on", PyBool(FALSE)))
        pwm == py_int(get(data.obj, "pwm", PyInt(0)))
    IN  Branch(json_loads_ok(data), is_dict(data) /\ pwm.ok, NoUpdate,
               [x \in {"fan", "mode", "comfortBand"} |->
                   CASE x = "fan" -> [on |-> on, pwm |-> pwm.v]
                     [] x = "mode" -> get(data.obj, "mode", PyStr(S_auto))
                     [] x = "comfortBand" -> get(data.obj, "band", PyStr(S_Low))],
               <<"climate">>)

\* lines 125-129
branch_quality_raw(data) ==
    LET mq135 == py_int(get(data.obj, "mq135", PyInt(0)))
    IN  Branch(json_loads_ok(data), is_dict(data) /\ mq135.ok, NoUpdate,
               [x \in {"aqRaw"} |-> mq135.v], <<"climate">>)

\* lines 130-134
branch_quality_status(data) ==
    Branch(json_loads_ok(data), is_dict(data), NoUpdate,
           [x \in {"aqStatus"} |-> get(data.obj, "status", PyStr(S_Good))],
           <<"climate">>)

\* a detection branch that leaves the climate section alone
branch_detection_lighting_only(data, timestamp) ==
    LET is_present == PyBool(lower(strip(data.text)) = S_true)
    IN  Branch(TRUE, TRUE,
               [x \in {"ai_presence", "ai_timestamp"} |->
                   IF x = "ai_presence" THEN is_present ELSE PyInt(timestamp)],
               NoUpdate, <<"lighting", "climate">>)

\* lines 137-147 (timestamp: the clock reading of line 139)
branch_detection(data, timestamp) ==
    LET is_present == PyBool(lower(strip(data.text)) = S_true)
    IN  Branch(TRUE, TRUE,
               [x \in {"ai_presence", "ai_timestamp"} |->
                   IF x = "ai_presence" THEN is_present ELSE PyInt(timestamp)],
               [x \in {"presence"} |-> is_present],
               <<"lighting", "climate">>)

\* a count branch that stamps the time before converting the payload
branch_count_stamp_first(data, timestamp) ==
    LET f == float_of_text(data.text)
        count == IF f.ok THEN py_int(f.v) ELSE Ok(PyInt(0))
    IN  Branch(TRUE, TRUE,
               [x \in {"ai_people_count", "ai_timestamp"} |->
                   IF x = "ai_people_count" THEN count.v ELSE PyInt(timestamp)],
               NoUpdate, <<"lighting">>)

\* a count branch that also clears the confidence
branch_count_resets_confidence(data, timestamp) ==
    LET f == float_of_text(data.text)
        count == IF f.ok THEN py_int(f.v) ELSE Raise
    IN  Branch(TRUE, count.ok,
               [x \in {"ai_people_count", "ai_confidence", "ai_timestamp"} |->
                   CASE x = "ai_people_count" -> count.v
                     [] x = "ai_confidence" -> PyFloat(0)
                     [] x = "ai_timestamp" -> PyInt(timestamp)],
               NoUpdate, <<"lighting">>)

\* lines 148-152 (timestamp: the clock reading of line 151)
branch_count(data, timestamp) ==
    LET f == float_of_text(data.text)
        count == IF f.ok THEN py_int(f.v) ELSE Raise
    IN  Branch(TRUE, count.ok,
               [x \in {"ai_people_count", "ai_timestamp"} |->
                   IF x = "ai_people_count" THEN count.v ELSE PyInt(timestamp)],
               NoUpdate, <<"lighting">>)

\* a confidence branch that stores the whole part of the number
branch_confidence_truncated(data, timestamp) ==
    LET f == float_of_text(data.text)
        whole == IF f.ok THEN py_int(f.v) ELSE Raise
    IN  Branch(TRUE, whole.ok,
               [x \in {"ai_confidence", "ai_timestamp"} |->
                   IF x = "ai_confidence" THEN whole.v ELSE PyInt(timestamp)],
               NoUpdate, <<"lighting">>)

\* lines 153-157 (timestamp: the clock reading of line 156)
branch_confidence(data, timestamp) ==
    LET f == float_of_text(data.text)
    IN  Branch(TRUE, f.ok,
               [x \in {"ai_confidence", "ai_timestamp"} |->
                   IF x = "ai_confidence" THEN f.v ELSE PyInt(timestamp)],
               NoUpdate, <<"lighting">>)

\* a router that files an unsubscribed topic under lighting/mode
route_unknown_as_mode(topic, data, timestamp) ==
    IF topic = T_brightness THEN branch_brightness(data) ELSE branch_mode(data)

\* lines 78-159: the if/elif chain; a topic matching no branch does nothing
route(topic, data, timestamp) ==
    CASE topic = T_brightness -> branch_brightness(data)
      [] topic = T_led_state -> branch_led_state(data)
      [] topic = T_mode -> branch_mode(data)
      [] topic = T_temperature -> branch_temperature(data)
      [] topic = T_humidity -> branch_humidity(data)
      [] topic = T_fan_state -> branch_fan_state(data)
      [] topic = T_quality_raw -> branch_quality_raw(data)
      [] topic = T_quality_status -> branch_quality_status(data)
      [] topic = T_detection -> branch_detection(data, timestamp)
      [] topic = T_count -> branch_count(data, timestamp)
      [] topic = T_confidence -> branch_confidence(data, timestamp)
      [] OTHER -> Branch(FALSE, FALSE, NoUpdate, NoUpdate, <<>>)

\* a merge that replaces the section by a dict holding only the new keys
merge_replace_section(section, update) ==
    [f \in DOMAIN section |-> IF f \in DOMAIN update THEN update[f] ELSE PyNone]

\* state[key] = value for every key assigned: the other keys keep their value
merge(section, update) ==
    [f \in DOMAIN section |-> IF f \in DOMAIN update THEN update[f] ELSE section[f]]

\* lines 34-42
InitialState ==
    [ldrRaw |-> PyNone,
     led |-> [on |-> PyBool(FALSE), pwm |-> PyInt(0)],
     mode |-> PyStr(S_auto),
     ai_presence |-> PyBool(FALSE),
     ai_people_count |-> PyInt(0),
     ai_confidence |-> PyFloat(0),
     ai_timestamp |-> PyInt(0)]

\* lines 44-53
InitialClimateState ==
    [tempC |-> PyNone,
     humidity |-> PyNone,
     aqRaw |-> PyNone,
     aqStatus |-> PyStr(S_Good),
     fan |-> [on |-> PyBool(FALSE), pwm |-> PyInt(0)],
     comfortBand |-> PyStr(S_Low),
     mode |-> PyStr(S_auto),
     presence |-> PyBool(FALSE)]

\* the nullable readings of both sections that currently hold a value
KnownReadings(st, cl) ==
    {f \in {"ldrRaw"} : st[f] # PyNone}
        \cup {f \in {"tempC", "humidity", "aqRaw"} : cl[f] # PyNone}

NoThread == 0
Handlers == 1..NumHandlers
MainThread == 1     \* the network thread of client.loop_forever() (line 187)

NoData == decode_utf8(Scalar(<<>>))
NoMsg == [topic |-> "", data |-> decode_utf8(Scalar(<<>>)), timestamp |-> 0]
NoPayload == [section |-> "none", body |-> <<>>]
NoHist == [topic |-> "", data |-> decode_utf8(Scalar(<<>>)), timestamp |-> 0,
           outcome |-> "none",
           pre_state |-> InitialState, pre_climate |-> InitialClimateState,
           published |-> <<>>]

\* int(time.time() * 1000): a reading t of a clock that never runs backwards
ReadClock(t) == t \in bclock..MaxStamp /\ bclock' = t
NoClockRead == bclock' = bclock

\* lines 74-85, 90, 104, ..., 138-139: on_message up to its `with lock`.
\* A topic that matches no branch, or a statement that raises before the lock,
\* ends the handler (lines 158-159).
Receive(h, pool, limit) ==
    /\ pc[h] = "idle"
    /\ received[h] < limit
    /\ \E m \in pool, t \in bclock..MaxStamp :
        LET data == decode_utf8(m.payload)
            b == route(m.topic, data, t)
        IN  /\ IF m.topic = T_detection THEN ReadClock(t)
               ELSE t = bclock /\ NoClockRead
            /\ msg' = [msg EXCEPT ![h] =
                          [topic |-> m.topic, data |-> data, timestamp |-> t]]
            /\ hist' = [hist EXCEPT ![h] =
                          [topic |-> m.topic, data |-> data, timestamp |-> t,
                           outcome |-> IF b.pre THEN "handling"
                                       ELSE IF m.topic \in Subscribed
                                       THEN "decode_error" ELSE "unrouted",
                           pre_state |-> state, pre_climate |-> climate_state,
                           published |-> <<>>]]
            /\ pc' = [pc EXCEPT ![h] = IF b.pre THEN "acquire_merge" ELSE "idle"]
    /\ received' = [received EXCEPT ![h] = @ + 1]
    /\ UNCHANGED <<state, climate_state, lock, todo, payload, ever_known>>
    /\ UNCHANGED <<debouncer_vars, fuser_vars, variant_vars, aq_vars>>

\* `with lock:` entered before the assignments
AcquireForMerge(h) ==
    /\ pc[h] = "acquire_merge"
    /\ lock = NoThread
    /\ lock' = h
    /\ pc' = [pc EXCEPT ![h] = "merge"]
    /\ UNCHANGED <<state, climate_state, msg, todo, payload, hist, received,
                   bclock, ever_known>>
    /\ UNCHANGED <<debouncer_vars, fuser_vars, variant_vars, aq_vars>>

\* the body of the `with lock:` block and the release at its end.  When a
\* conversion raises, nothing has been assigned yet, the lock is released and
\* on_message returns (lines 158-159).
Merge(h) ==
    /\ pc[h] = "merge"
    /\ lock = h
    /\ \E t \in bclock..MaxStamp :
        LET m == msg[h]
            stamp == IF m.topic = T_detection THEN m.timestamp ELSE t
            b == route(m.topic, m.data, stamp)
        IN  /\ IF m.topic \in {T_count, T_confidence} /\ b.ok THEN ReadClock(t)
               ELSE t = bclock /\ NoClockRead
            /\ state' = merge(state, b.lighting)
            /\ climate_state' = merge(climate_state, b.climate)
            /\ todo' = [todo EXCEPT ![h] = b.publish]
            /\ pc' = [pc EXCEPT ![h] = IF b.ok THEN "acquire_copy" ELSE "idle"]
            /\ hist' = [hist EXCEPT ![h].outcome =
                            IF b.ok THEN "applied" ELSE "decode_error",
                                    ![h].timestamp = stamp,
                                    ![h].pre_state = state,
                                    ![h].pre_climate = climate_state]
    /\ lock' = NoThread
    /\ ever_known' = ever_known \cup KnownReadings(state', climate_state')
    /\ UNCHANGED <<msg, payload, received>>
    /\ UNCHANGED <<debouncer_vars, fuser_vars, variant_vars, aq_vars>>

\* patch_state / patch_climate_state, line 57 / 66: `with lock:` entered
AcquireForCopy(h) ==
    /\ pc[h] = "acquire_copy"
    /\ lock = NoThread
    /\ lock' = h
    /\ pc' = [pc EXCEPT ![h] = "copy"]
    /\ UNCHANGED <<state, climate_state, msg, todo, payload, hist, received,
                   bclock, ever_known>>
    /\ UNCHANGED <<debouncer_vars, fuser_vars, variant_vars, aq_vars>>

\* a copy that leaves the `with lock:` block open over the network call
Copy_holding_lock(h) ==
    /\ pc[h] = "copy"
    /\ lock = h
    /\ payload' = [payload EXCEPT ![h] =
                      [section |-> Head(todo[h]),
                       body |-> IF Head(todo[h]) = "lighting" THEN state
                                ELSE climate_state]]
    /\ pc' = [pc EXCEPT ![h] = "send"]
    /\ UNCHANGED <<state, climate_state, lock, msg, todo, hist, received,
                   bclock, ever_known>>
    /\ UNCHANGED <<debouncer_vars, fuser_vars, variant_vars, aq_vars>>

\* a copy that takes only the keys the message has just assigned
Copy_changed_fields_only(h) ==
    /\ pc[h] = "copy"
    /\ lock = h
    /\ payload' = [payload EXCEPT ![h] =
                      [section |-> Head(todo[h]),
                       body |-> IF Head(todo[h]) = "lighting"
                                THEN [f \in DOMAIN route(msg[h].topic, msg[h].data, 0).lighting
                                         |-> state[f]]
                                ELSE [f \in DOMAIN route(msg[h].topic, msg[h].data, 0).climate
                                         |-> climate_state[f]]]]
    /\ lock' = NoThread
    /\ pc' = [pc EXCEPT ![h] = "send"]
    /\ UNCHANGED <<state, climate_state, msg, todo, hist, received, bclock,
                   ever_known>>
    /\ UNCHANGED <<debouncer_vars, fuser_vars, variant_vars, aq_vars>>

\* lines 58 / 67: payload = state.copy(), and the release of the lock.  The
\* copy is shallow, but the code replaces nested dicts and never mutates them,
\* so the copy keeps the values it was taken with.
Copy(h) ==
    /\ pc[h] = "copy"
    /\ lock = h
    /\ payload' = [payload EXCEPT ![h] =
                      [section |-> Head(todo[h]),
                       body |-> IF Head(todo[h]) = "lighting" THEN state
                                ELSE climate_state]]
    /\ lock' = NoThread
    /\ pc' = [pc EXCEPT ![h] = "send"]
    /\ UNCHANGED <<state, climate_state, msg, todo, hist, received, bclock,
                   ever_known>>
    /\ UNCHANGED <<debouncer_vars, fuser_vars, variant_vars, aq_vars>>

\* what requests.patch(url, json=payload, timeout=5) can do: return a response
\* with a 2xx status, return one with another status, raise (connection
\* refused, ...), or raise requests.exceptions.Timeout after 5 seconds
Responses == {"ok", "non_2xx", "exception", "timeout"}
\* the remote store up and answering every request
Answered == {"ok"}
raises(response) == response \in {"exception", "timeout"}

\* a publish function without its try/except: the exception leaves it
patch_result_uncaught(response) ==
    IF raises(response) THEN "raised" ELSE "returned"

\* lines 60-63 / 69-72: try: requests.patch(...) / except Exception: pass.
\* The response is not looked at; what is raised is swallowed.
patch_result(response) ==
    IF raises(response) THEN "swallowed" ELSE "returned"

\* lines 59-63 / 68-72: the one call of requests.patch and the return of the
\* publish function.  An exception leaving the publish function would be
\* caught by on_message (lines 158-159), which then returns at once.
Send(h, responses) ==
    /\ pc[h] = "send"
    /\ \E response \in responses :
        LET result == patch_result(response)
            rest == IF result = "raised" THEN <<>> ELSE Tail(todo[h])
        IN  /\ hist' = [hist EXCEPT ![h].published =
                           Append(@, [section |-> payload[h].section,
                                      body |-> payload[h].body,
                                      response |-> response,
                                      result |-> result])]
            /\ todo' = [todo EXCEPT ![h] = rest]
            /\ pc' = [pc EXCEPT ![h] =
                         IF rest = <<>> THEN "idle" ELSE "acquire_copy"]
    /\ payload' = [payload EXCEPT ![h] = NoPayload]
    /\ UNCHANGED <<state, climate_state, lock, msg, received, bclock,
                   ever_known>>
    /\ UNCHANGED <<debouncer_vars, fuser_vars, variant_vars, aq_vars>>

(***************************************************************************)
(* The MQTT connection (lines 166-187).  The client is made with the       *)
(* default clean session (line 166), subscribes once after connect()       *)
(* (lines 168-181) and sets no on_connect or on_disconnect callback (line   *)
(* 167 sets on_message only); loop_forever() (line 187) reconnects by       *)
(* itself when the connection is lost.                                      *)
(***************************************************************************)
\* what the broker keeps of a clean session once its connection is gone
session_after_disconnect(subs) == {}
\* what the client subscribes to on a new connection: nothing, the one
\* subscribe call of line 169 is not repeated
subscribed_on_connect == {}

\* a disconnect that starts the process afresh, its two dicts rebuilt
Disconnect_discarding_state ==
    /\ connection = "connected"
    /\ pc[MainThread] = "idle"
    /\ connection' = "disconnected"
    /\ subscriptions' = session_after_disconnect(subscriptions)
    /\ lost' = [happened |-> TRUE, state |-> state,
                climate_state |-> climate_state,
                received |-> received[MainThread]]
    /\ state' = InitialState
    /\ climate_state' = InitialClimateState
    /\ UNCHANGED <<lock, pc, msg, todo, payload, bclock, received,
                   hist, ever_known, prev, trail, latest, remote, heap, refs,
                   held, peer_vars>>
    /\ UNCHANGED <<debouncer_vars, fuser_vars, variant_vars, aq_vars>>

\* line 187: the network loop finds the connection gone.  It does so between
\* two calls of on_message, which runs on the same thread; no code of the
\* bridge runs on the event.
Disconnect ==
    /\ connection = "connected"
    /\ pc[MainThread] = "idle"
    /\ connection' = "disconnected"
    /\ subscriptions' = session_after_disconnect(subscriptions)
    /\ lost' = [happened |-> TRUE, state |-> state,
                climate_state |-> climate_state,
                received |-> received[MainThread]]
    /\ UNCHANGED <<state, climate_state, lock, pc, msg, todo, payload, bclock,
                   received, hist, ever_known, prev, trail, latest, remote,
                   heap, refs, held, peer_vars>>
    /\ UNCHANGED <<debouncer_vars, fuser_vars, variant_vars, aq_vars>>

\* line 187: loop_forever() tries to connect again; the attempt fails and is
\* repeated later, or succeeds
Reconnect(success) ==
    /\ connection \in {"disconnected", "reconnecting"}
    /\ connection' = IF success THEN "connected" ELSE "reconnecting"
    /\ subscriptions' = IF success THEN subscriptions \cup subscribed_on_connect
                        ELSE subscriptions
    /\ UNCHANGED <<state, climate_state, lock, pc, msg, todo, payload, bclock,
                   received, hist, ever_known, prev, trail, latest, lost,
                   remote, heap, refs, held, peer_vars>>
    /\ UNCHANGED <<debouncer_vars, fuser_vars, variant_vars, aq_vars>>

\* the broker hands over a message: on a live connection, on a topic the
\* client is subscribed to
Deliver(pool, limit) ==
    /\ connection = "connected"
    /\ Receive(MainThread, {m \in pool : m.topic \in subscriptions}, limit)

\* nothing lost yet; no nested object referred to
NoLoss == [happened |-> FALSE, state |-> InitialState,
           climate_state |-> InitialClimateState, received |-> 0]
NoRef == 0

(***************************************************************************)
(* The remote store.  requests.patch(url, json=payload) (lines 61, 70) is   *)
(* an update of the document at <section>/<room>/state: the children named  *)
(* in the body are written, the others are kept, and a child written as     *)
(* null is removed.                                                         *)
(***************************************************************************)
firebase_patch(doc, body) ==
    LET named == {f \in DOMAIN body : body[f] # PyNone}
        others == DOMAIN doc \ DOMAIN body
    IN  [f \in named \cup others |-> IF f \in named THEN body[f] ELSE doc[f]]
\* a child of a document as it is read back: null when it is not there
remote_get(doc, f) == IF f \in DOMAIN doc THEN doc[f] ELSE PyNone

\* the request, with what it does to the remote store: a 2xx answer means
\* the write was made, a refusal or another status that it was not, and a
\* timeout leaves both open
SendStored(h, responses) ==
    /\ Send(h, responses)
    /\ LET made == hist'[h].published[Len(hist'[h].published)]
           written == [remote EXCEPT ![made.section] =
                          firebase_patch(remote[made.section], made.body)]
       IN  \/ made.response \in {"ok", "timeout"} /\ remote' = written
           \/ made.response # "ok" /\ remote' = remote

(***************************************************************************)
(* Nested dicts.  state['led'] and climate_state['fan'] refer to dict       *)
(* objects; state.copy() (lines 58, 67) is shallow, so a payload refers to   *)
(* the same object as the section it was copied from, and json.dumps reads   *)
(* that object when requests.patch is called.                                *)
(***************************************************************************)
\* an assignment that changes the dict object already in place
assign_nested_in_place(hp, rf, key, value) ==
    [heap |-> [hp EXCEPT ![rf[key]] = value], refs |-> rf]

\* lines 92-95 / 116-119: state['led'] = {...} builds a new dict object and
\* binds the key to it; the object bound before is left as it is
assign_nested(hp, rf, key, value) ==
    [heap |-> Append(hp, value), refs |-> [rf EXCEPT ![key] = Len(hp) + 1]]

\* the nested key of each section
NestedKey(section) == IF section = "lighting" THEN "led" ELSE "fan"

\* the objects after the assignments of a branch
assign_all(hp, rf, b) ==
    LET a == IF "led" \in DOMAIN b.lighting
             THEN assign_nested(hp, rf, "led", b.lighting.led)
             ELSE [heap |-> hp, refs |-> rf]
    IN  IF "fan" \in DOMAIN b.climate
        THEN assign_nested(a.heap, a.refs, "fan", b.climate.fan)
        ELSE a

\* the merge, with the objects it builds
MergeObjects(h) ==
    /\ Merge(h)
    /\ LET a == assign_all(heap, refs, route(msg[h].topic, msg[h].data, 0))
       IN  heap' = a.heap /\ refs' = a.refs
    /\ UNCHANGED held

\* the shallow copy, with the object the payload shares with the section
CopyObjects(h) ==
    /\ Copy(h)
    /\ held' = [held EXCEPT ![h] = refs[NestedKey(Head(todo[h]))]]
    /\ UNCHANGED <<heap, refs>>

\* the request, after which the payload is dropped
SendObjects(h, responses) ==
    /\ Send(h, responses)
    /\ held' = [held EXCEPT ![h] = NoRef]
    /\ UNCHANGED <<heap, refs>>

\* json.dumps(payload) as requests.patch makes it: the top-level values of
\* the copy, the nested dict as the shared object holds it now
Serialized(h) ==
    [payload[h].body EXCEPT ![NestedKey(payload[h].section)] = heap[held[h]]]

\* lines 34-54 and 166-181: the two sections, the lock, the connection made
\* and the eleven topics subscribed
InitBridge ==
    /\ state = InitialState
    /\ climate_state = InitialClimateState
    /\ lock = NoThread
    /\ pc = [h \in Handlers |-> "idle"]
    /\ msg = [h \in Handlers |-> NoMsg]
    /\ todo = [h \in Handlers |-> <<>>]
    /\ payload = [h \in Handlers |-> NoPayload]
    /\ hist = [h \in Handlers |-> NoHist]
    /\ received = [h \in Handlers |-> 0]
    /\ bclock = 1
    /\ ever_known = {}
    /\ prev = NoHist
    /\ trail = <<>>
    /\ latest = [topic \in Subscribed |-> NoData]
    /\ connection = "connected"
    /\ subscriptions = Subscribed
    /\ lost = NoLoss
    /\ remote = [section \in {"lighting", "climate"} |-> NoUpdate]
    /\ heap = <<InitialState.led, InitialClimateState.fan>>
    /\ refs = [led |-> 1, fan |-> 2]
    /\ held = [h \in Handlers |-> NoRef]

(***************************************************************************)
(* The messages fed to the bridge                                          *)
(***************************************************************************)
Msg(topic, raw) == [topic |-> topic, payload |-> raw]

WellFormed ==
    { Msg(T_brightness, JsonObject([k \in {"ldrRaw"} |-> PyInt(2500)])),
      Msg(T_led_state, JsonObject([k \in {"on", "pwm"} |->
              IF k = "on" THEN PyBool(TRUE) ELSE PyInt(150)])),
      Msg(T_mode, Scalar(S_manual)),
      Msg(T_temperature, JsonObject([k \in {"c"} |-> PyFloat(2450)])),
      Msg(T_humidity, JsonObject([k \in {"rh"} |-> PyInt(60)])),
      Msg(T_fan_state, JsonObject([k \in {"on", "pwm", "mode", "band"} |->
              CASE k = "on" -> PyBool(TRUE) [] k = "pwm" -> PyInt(200)
                [] k = "mode" -> PyStr(S_manual) [] k = "band" -> PyStr(S_High)])),
      Msg(T_quality_raw, JsonObject([k \in {"mq135"} |-> PyInt(450)])),
      Msg(T_quality_status, JsonObject([k \in {"status"} |-> PyStr(S_Poor)])),
      Msg(T_detection, Scalar(S_true)),
      Msg(T_count, Scalar(<<"2">>)),
      Msg(T_confidence, Scalar(<<"0", ".", "8", "5">>)) }

\* well-formed variants: other values, other spellings
Variants ==
    { Msg(T_brightness, Scalar(<<"3", "0", "0">>)),
      Msg(T_mode, Scalar(<<"a", "u", "t", "o", "\n">>)),
      Msg(T_detection, Scalar(S_false)),
      Msg(T_detection, Scalar(<<"T", "r", "u", "e", " ">>)),
      Msg(T_count, Scalar(<<"2", ".", "7">>)),
      Msg(T_count, Scalar(<<"-", "1">>)),
      Msg(T_count, Scalar(<<"1", InvalidByte>>)) }

\* structured messages lacking some of their keys
Partial ==
    { Msg(T_brightness, JsonObject(NoUpdate)),
      Msg(T_led_state, JsonObject([k \in {"on"} |-> PyBool(TRUE)])),
      Msg(T_led_state, JsonObject([k \in {"pwm"} |-> PyInt(150)])),
      Msg(T_temperature, JsonObject(NoUpdate)),
      Msg(T_humidity, JsonObject(NoUpdate)),
      Msg(T_fan_state, JsonObject([k \in {"on", "pwm"} |->
              IF k = "on" THEN PyBool(TRUE) ELSE PyInt(200)])),
      Msg(T_fan_state, JsonObject([k \in {"mode", "band"} |->
              IF k = "mode" THEN PyStr(S_manual) ELSE PyStr(S_High)])),
      Msg(T_quality_raw, JsonObject(NoUpdate)),
      Msg(T_quality_status, JsonObject(NoUpdate)) }

\* payloads that are not what the topic expects
Malformed ==
    { Msg(T_brightness, Scalar(<<"d", "i", "m">>)),
      Msg(T_brightness, JsonObject([k \in {"ldrRaw"} |-> PyNone])),
      Msg(T_led_state, JsonObject([k \in {"on", "pwm"} |->
              IF k = "on" THEN PyBool(TRUE) ELSE PyStr(S_High)])),
      Msg(T_led_state, Scalar(<<"1", "5", "0">>)),
      Msg(T_temperature, JsonObject([k \in {"c"} |-> PyStr(<<"h", "o", "t">>)])),
      Msg(T_temperature, Scalar(<<"2", "4", ".", "5">>)),
      Msg(T_humidity, JsonObject([k \in {"rh"} |-> PyNone])),
      Msg(T_humidity, Scalar(<<"w", "e", "t">>)),
      Msg(T_fan_state, JsonObject([k \in {"on", "pwm", "mode"} |->
              CASE k = "on" -> PyBool(TRUE) [] k = "pwm" -> PyStr(S_High)
                [] k = "mode" -> PyStr(S_manual)])),
      Msg(T_quality_raw, JsonObject([k \in {"mq135"} |-> PyStr(S_Poor)])),
      Msg(T_quality_status, Scalar(S_Poor)),
      Msg(T_count, Scalar(<<"t", "w", "o">>)),
      Msg(T_confidence, Scalar(S_High)) }

\* a topic the bridge has no branch for
Unrouted ==
    { Msg("sensors/lighting/unknown", Scalar(<<"1">>)),
      Msg("ai/presence", Scalar(S_true)) }

Inbox == WellFormed \cup Variants \cup Partial \cup Malformed \cup Unrouted

\* the messages handled side by side in SpecConcurrent: writers of one
\* section, of the other, of both, and writers that share a key
ConcurrentInbox ==
    {m \in WellFormed :
        m.topic \in {T_brightness, T_temperature, T_detection, T_count}}

\* the messages of SpecPublish: one of each topic, one the bridge drops for
\* its payload and one it has no branch for
PublishInbox ==
    WellFormed
        \cup {Msg(T_count, Scalar(<<"t", "w", "o">>)),
              Msg("ai/presence", Scalar(S_true))}

\* the messages of SpecScenario: the two end-to-end scenarios of the test
\* script and of the air-quality publisher, other values on the same topics,
\* and a message that touches none of their fields
ScenarioInbox ==
    {m \in WellFormed :
        m.topic \in {T_detection, T_count, T_confidence, T_quality_raw,
                     T_quality_status, T_brightness}}
        \cup {Msg(T_detection, Scalar(S_false)),
              Msg(T_count, Scalar(<<"-", "1">>))}

\* the messages of SpecLatest: the lighting and presence topics with their
\* documented payloads and other spellings and values of them
LightingTopics ==
    {T_brightness, T_led_state, T_mode, T_detection, T_count, T_confidence}
LatestInbox == {m \in WellFormed \cup Variants : m.topic \in LightingTopics}

\* the messages of SpecSnapshot: writers of the nested dicts, with different
\* values, and a writer of a plain key
SnapshotInbox ==
    {m \in WellFormed : m.topic \in {T_brightness, T_led_state, T_fan_state}}
        \cup {Msg(T_led_state, JsonObject([k \in {"pwm"} |-> PyInt(150)]))}

\* the messages of SpecPair: both values of the presence
PairInbox == {Msg(T_detection, Scalar(S_true)), Msg(T_detection, Scalar(S_false))}

\* the threads of SpecPair: the one that takes the two copies and the one
\* whose merge may fall between them, in either role
PairThreads == {MainThread, MainThread + 1}

\* lines 146-147: thread h stands between the copy of patch_state and the
\* copy of patch_climate_state for a detection message
InPair(h) ==
    /\ msg[h].topic = T_detection
    /\ \/ pc[h] = "send" /\ payload[h].section = "lighting"
       \/ pc[h] \in {"acquire_copy", "copy"} /\ todo[h] = <<"climate">>

\* the merge, noted by the threads standing between their two copies when
\* the message merged is a detection message
MergePair(h) ==
    /\ Merge(h)
    /\ between' = [g \in Handlers |->
                       IF g # h /\ msg[h].topic = T_detection /\ InPair(g)
                       THEN TRUE ELSE between[g]]

\* the copy; the first copy of a detection message starts a pair
CopyPair(h) ==
    /\ Copy(h)
    /\ between' = [between EXCEPT ![h] =
                       IF todo[h] = <<"lighting", "climate">> THEN FALSE ELSE @]

\* the messages of SpecMirror: climate and presence messages, and one of the
\* air-quality topics
MirrorInbox ==
    {m \in WellFormed :
        m.topic \in {T_temperature, T_fan_state, T_detection, T_quality_raw}}

\* the ghost trail after one more message: the latest three, oldest first
Trailed(tr, m) ==
    LET all == Append(tr, [topic |-> m.topic, data |-> m.data])
    IN  IF Len(all) > 3 THEN Tail(all) ELSE all

(***************************************************************************)
(* Specifications                                                          *)
(***************************************************************************)
vars == <<detection_history, deb_inputs, deb_ret,
          clock, last_person_detected, hyb, last_hog_at, quiet,
          state, climate_state, lock, pc, msg, todo, payload, bclock,
          received, hist, ever_known, prev, trail, latest,
          connection, subscriptions, lost, remote, heap, refs, held,
          var_history, var_inputs, var_ret, aq_raw, aq_result,
          aq_written, gpu, smart, realtime, simple, mqtt_queue, ticks, between>>

(***************************************************************************)
(* The other debouncers: AIPresenceDetector (realtime_presence.py, lines    *)
(* 81-96), SmartLightingAI (smart_lighting_ai.py, lines 85-100) and         *)
(* PCStreamClient (pc_stream_client.py, lines 142-157).  The three methods  *)
(* are the same statement by statement.                                     *)
(***************************************************************************)
OtherDetectors == {"AIPresenceDetector", "SmartLightingAI", "PCStreamClient"}
variant_history_size == 5

\* append the observation, evict the oldest beyond history_size
variant_push_history(h, person_count) ==
    LET appended == Append(h, person_count > 0)
    IN  IF Len(appended) > variant_history_size THEN Tail(appended) ELSE appended

\* a debouncer that applies the majority rule from the first call on
variant_result_no_warm_up(h, person_count) == sum(h) >= 2

\* the value returned, h being the history after the push: the majority rule
\* from three samples on, the raw observation before
variant_result(h, person_count) ==
    IF Len(h) >= 3 THEN sum(h) >= 2 ELSE person_count > 0

variant_stable_presence_detection(d, person_count) ==
    /\ Len(var_inputs[d]) < MaxCalls
    /\ var_history' = [var_history EXCEPT ![d] =
                           variant_push_history(@, person_count)]
    /\ var_ret' = [var_ret EXCEPT ![d] =
                       variant_result(var_history'[d], person_count)]
    /\ var_inputs' = [var_inputs EXCEPT ![d] = Append(@, person_count)]
    /\ UNCHANGED <<debouncer_vars, fuser_vars, bridge_vars, aq_vars>>

(***************************************************************************)
(* classify_air_quality (pi_mq135_publisher.py, lines 50-57)                *)
(***************************************************************************)
AQ_GOOD_MAX == 300
AQ_MODERATE_MAX == 400

\* a classifier whose Moderate band starts at AQ_GOOD_MAX
classify_air_quality_from_good_max(raw_value) ==
    IF raw_value >= AQ_MODERATE_MAX + 1
    THEN [status |-> "Poor", alert |-> "Alert, air quality poor"]
    ELSE IF raw_value >= AQ_GOOD_MAX
    THEN [status |-> "Moderate", alert |-> "Warning, air quality moderate"]
    ELSE [status |-> "Good", alert |-> ""]

classify_air_quality(raw_value) ==
    IF raw_value >= AQ_MODERATE_MAX + 1
    THEN [status |-> "Poor", alert |-> "Alert, air quality poor"]
    ELSE IF raw_value >= AQ_GOOD_MAX + 1
    THEN [status |-> "Moderate", alert |-> "Warning, air quality moderate"]
    ELSE [status |-> "Good", alert |-> ""]

\* one reading of the sensor classified
Classify(raw_value) ==
    /\ aq_raw' = raw_value
    /\ aq_result' = classify_air_quality(raw_value)
    /\ UNCHANGED <<debouncer_vars, fuser_vars, bridge_vars, variant_vars>>

InitVariants ==
    /\ var_history = [d \in OtherDetectors |-> <<>>]
    /\ var_inputs = [d \in OtherDetectors |-> <<>>]
    /\ var_ret = [d \in OtherDetectors |-> FALSE]

NoReading == 0 - 1

(***************************************************************************)
(* ForceGPUYOLODetector.run_detection and update_firebase                  *)
(* (AI_Presence_Detection.py, lines 137-179 and 213-254).  Times are in     *)
(* whole seconds; a confidence is kept in thousandths.                      *)
(***************************************************************************)
update_interval == 1
frame_skip == 1

\* str(i) of an int that is not negative
RECURSIVE str_of_int(_)
str_of_int(i) ==
    IF i < 10 THEN <<DigitChars[i + 1]>>
    ELSE Append(str_of_int(i \div 10), DigitChars[(i % 10) + 1])

\* round(x, 2), in hundredths, of a value given in thousandths (the inputs
\* hold no value halfway between two hundredths)
round_2(thousandths) == (thousandths + 5) \div 10

\* f"{x:.2f}" of a value given in thousandths
format_2f(thousandths) ==
    LET h == round_2(thousandths)
    IN  str_of_int(h \div 100)
            \o <<".", DigitChars[((h \div 10) % 10) + 1], DigitChars[(h % 10) + 1]>>

\* what detect_people_force_gpu (lines 90-120) can return with max() of line
\* 228: person_count counts every person box, confidences holds those of the
\* boxes large enough, so max_confidence is 0.0 or at least conf_threshold
ConfidenceInputs == {0, 857}
Detections ==
    {[person_count |-> 0, max_confidence |-> 0]}
        \cup {[person_count |-> n, max_confidence |-> c] :
                 n \in 1..MaxCount, c \in ConfidenceInputs}

S_GPU_Camera == <<"G", "P", "U", "_", "C", "a", "m", "e", "r", "a">>
NoCall == [made |-> FALSE, presence |-> FALSE, person_count |-> 0,
           max_confidence |-> 0, response |-> "none", published |-> <<>>,
           returned |-> FALSE]

\* lines 158-160: the three messages of one call
presence_messages(presence, person_count, max_confidence) ==
    <<Msg(T_detection, Scalar(IF presence THEN S_true ELSE S_false)),
      Msg(T_count, Scalar(str_of_int(person_count))),
      Msg(T_confidence, Scalar(format_2f(max_confidence)))>>

\* lines 144-150: ai_data
ai_data_of(presence, person_count, max_confidence, now) ==
    [ai_presence |-> PyBool(presence),
     ai_people_count |-> PyInt(person_count),
     ai_confidence |-> PyFloat(round_2(max_confidence)),
     ai_timestamp |-> PyInt(now * 1000),
     ai_source |-> PyStr(S_GPU_Camera)]

\* lines 139-179: the body of update_firebase for one answer of
\* requests.patch.  An exception or a timeout of requests.patch (line 154)
\* leaves the outer try at once: lines 157-162 are not run and line 179
\* returns False.
update_firebase(presence, person_count, max_confidence, response, now) ==
    [made |-> TRUE, presence |-> presence, person_count |-> person_count,
     max_confidence |-> max_confidence, response |-> response,
     ai_data |-> ai_data_of(presence, person_count, max_confidence, now),
     published |-> IF raises(response) THEN <<>>
                   ELSE presence_messages(presence, person_count, max_confidence),
     returned |-> response = "ok"]

\* what a request does to the document of the lighting section
detector_write(call) ==
    IF call.response = "ok"
    THEN {[remote EXCEPT !.lighting = firebase_patch(@, call.ai_data)]}
    ELSE IF call.response = "timeout"
    THEN {remote, [remote EXCEPT !.lighting = firebase_patch(@, call.ai_data)]}
    ELSE {remote}

InitialGpu == [frames |-> 0, current_time |-> BootTime, last_update |-> 0,
               call |-> NoCall]

\* lines 214-254: one pass of the while loop.  frame_count % frame_skip is 0
\* on every frame; the first frame is read at BootTime or later.
gpu_frame(detected, dt, response) ==
    LET current_time == gpu.current_time + dt
        person_count == detected.person_count
        history == push_history(detection_history, person_count)
        stable_presence == stable_result(history, person_count)
        due == current_time - gpu.last_update >= update_interval
        call == update_firebase(stable_presence, person_count,
                                detected.max_confidence, response, current_time)
    IN  /\ gpu.frames < MaxFrames
        /\ (gpu.frames + 1) % frame_skip = 0
        /\ detection_history' = history
        /\ deb_ret' = stable_presence
        /\ deb_inputs' = Append(deb_inputs, person_count)
        /\ IF due
           THEN /\ gpu' = [frames |-> gpu.frames + 1, current_time |-> current_time,
                           last_update |-> current_time,
                           call |-> [f \in DOMAIN NoCall |-> call[f]]]
                /\ remote' \in detector_write(call)
           ELSE /\ response = "ok"
                /\ gpu' = [gpu EXCEPT !.frames = @ + 1,
                                      !.current_time = current_time]
                /\ remote' = remote
        /\ UNCHANGED <<state, climate_state, lock, pc, msg, todo, payload, bclock,
                       received, hist, ever_known, prev, trail, latest,
                       connection, subscriptions, lost, heap, refs, held>>
        /\ UNCHANGED <<aq_written, smart, realtime, simple, between>>
        /\ UNCHANGED <<fuser_vars, variant_vars, aq_vars>>

\* one frame of the loop, seen from the remote store alone
gpu_run_detection(detected, dt, response) ==
    /\ gpu_frame(detected, dt, response)
    /\ UNCHANGED <<mqtt_queue, ticks>>

\* the values of one call of update_firebase, as the bridge stores them
tick_of(call) ==
    <<PyBool(call.presence), PyInt(call.person_count),
      PyFloat(round_2(call.max_confidence))>>

\* one frame of the loop at which an update is due, seen from the broker as
\* well: the messages of lines 157-162 are on their way to the bridge, in the
\* order of the calls of publish
gpu_publish(detected, response) ==
    /\ gpu.frames < MaxUpdates
    /\ gpu_frame(detected, update_interval, response)
    /\ LET call == update_firebase(gpu'.call.presence, gpu'.call.person_count,
                                   gpu'.call.max_confidence, response,
                                   gpu'.current_time)
       IN  /\ mqtt_queue' = mqtt_queue \o call.published
           /\ ticks' = IF call.published = <<>> THEN ticks
                       ELSE ticks \cup {tick_of(call)}
InitAirQuality ==
    /\ aq_raw = NoReading
    /\ aq_result = [status |-> "", alert |-> ""]

(***************************************************************************)
(* SmartLightingAI.run_detection and update_firebase (smart_lighting_ai.py, *)
(* lines 102-130 and 175-225).  Times are in whole seconds.                 *)
(***************************************************************************)
firebase_interval == 3

\* what detect_people (lines 54-83) can return with max() of line 191: one
\* confidence per person counted
SmartDetections ==
    {[person_count |-> 0, max_confidence |-> 0]}
        \cup {[person_count |-> n, max_confidence |-> c] :
                 n \in 1..MaxCount, c \in ConfidenceInputs \ {0}}

S_camera_gpu == <<"c", "a", "m", "e", "r", "a", "_", "g", "p", "u">>

\* lines 104-130: ai_data, the one request, and the value returned: True for
\* status 200, False for another status, for an exception and for a timeout
smart_update_firebase(presence, people_count, max_confidence, response, now) ==
    [response |-> response,
     ai_data |-> [ai_presence |-> PyBool(presence),
                  ai_people_count |-> PyInt(people_count),
                  ai_confidence |-> IF max_confidence > 0
                                   THEN PyFloat(round_2(max_confidence))
                                   ELSE PyFloat(0),
                  ai_timestamp |-> PyInt(now * 1000),
                  ai_source |-> PyStr(S_camera_gpu)],
     returned |-> response = "ok"]

InitialSmart == [frames |-> 0, current_time |-> BootTime,
                 last_firebase_update |-> 0,
                 call_at |-> NoTime, call_returned |-> FALSE,
                 prev_call_at |-> NoTime, prev_call_returned |-> FALSE]

\* lines 176-225: one pass of the while loop.  last_firebase_update moves
\* only when update_firebase returned True (lines 196-197).
smart_run_detection(detected, dt, response) ==
    LET d == "SmartLightingAI"
        current_time == smart.current_time + dt
        people_count == detected.person_count
        history == variant_push_history(var_history[d], people_count)
        stable_presence == variant_result(history, people_count)
        due == current_time - smart.last_firebase_update >= firebase_interval
        call == smart_update_firebase(stable_presence, people_count,
                                      detected.max_confidence, response,
                                      current_time)
    IN  /\ smart.frames < MaxFrames
        /\ var_history' = [var_history EXCEPT ![d] = history]
        /\ var_ret' = [var_ret EXCEPT ![d] = stable_presence]
        /\ var_inputs' = [var_inputs EXCEPT ![d] = Append(@, people_count)]
        /\ IF due
           THEN /\ smart' = [frames |-> smart.frames + 1,
                             current_time |-> current_time,
                             last_firebase_update |->
                                 IF call.returned THEN current_time
                                 ELSE smart.last_firebase_update,
                             call_at |-> current_time,
                             call_returned |-> call.returned,
                             prev_call_at |-> smart.call_at,
                             prev_call_returned |-> smart.call_returned]
                /\ remote' \in detector_write(call)
           ELSE /\ response = "ok"
                /\ smart' = [smart EXCEPT !.frames = @ + 1,
                                          !.current_time = current_time]
                /\ remote' = remote
        /\ UNCHANGED <<state, climate_state, lock, pc, msg, todo, payload, bclock,
                       received, hist, ever_known, prev, trail, latest,
                       connection, subscriptions, lost, heap, refs, held>>
        /\ UNCHANGED <<aq_written, gpu, realtime, simple, mqtt_queue, ticks,
                       between>>
        /\ UNCHANGED <<debouncer_vars, fuser_vars, aq_vars>>

(***************************************************************************)
(* AIPresenceDetector.run_detection and update_firebase                    *)
(* (realtime_presence.py, lines 98-121 and 186-242).  Times are in whole    *)
(* seconds.                                                                 *)
(***************************************************************************)
realtime_update_interval == 2
process_every_n == 2

S_AI_Camera == <<"A", "I", "_", "C", "a", "m", "e", "r", "a">>

\* lines 63-79 and 123-127: detect_people returns `indexes` as a Python list
\* with one entry per person box, and draw_detections calls indexes.flatten()
\* when the list is not empty.  A list has no flatten: AttributeError.
draw_detections_raises(person_count) == person_count > 0

\* lines 100-121: the data written; what requests.patch raises is caught
realtime_update_firebase(presence, person_count, response, now) ==
    [response |-> response,
     ai_data |-> [presence |-> PyBool(presence),
                  personCount |-> PyInt(person_count),
                  ts |-> PyInt(now * 1000),
                  source |-> PyStr(S_AI_Camera)]]

\* lines 186-194 and 52: frame_count, the default person_count, last_update
InitialRealtime ==
    [frames |-> 0, running |-> TRUE, person_count |-> 0, runs |-> 0,
     window |-> <<>>, current_time |-> BootTime, last_update |-> 0,
     called |-> FALSE]

\* the ghost window after one more sample: the inference run it came from
\* (0: the default of line 193) beside the sample, evicted as the history is
realtime_window(w, run, person_count) ==
    LET appended == Append(w, [run |-> run, positive |-> person_count > 0])
    IN  IF Len(appended) > variant_history_size THEN Tail(appended) ELSE appended

\* lines 198-242: one pass of the while loop.  The inference runs on every
\* process_every_n-th frame; stable_presence_detection is called on every
\* frame with the person_count of the latest inference.  The loop catches
\* KeyboardInterrupt only, so the AttributeError of draw_detections ends
\* run_detection.
realtime_run_detection(detected, dt, response) ==
    LET d == "AIPresenceDetector"
        frame_count == realtime.frames + 1
        inferred == frame_count % process_every_n = 0
        person_count == IF inferred THEN detected.person_count
                        ELSE realtime.person_count
        runs == IF inferred THEN realtime.runs + 1 ELSE realtime.runs
        history == variant_push_history(var_history[d], person_count)
        stable_presence == variant_result(history, person_count)
        current_time == realtime.current_time + dt
        due == current_time - realtime.last_update >= realtime_update_interval
        call == realtime_update_firebase(stable_presence, person_count,
                                         response, current_time)
    IN  /\ realtime.running
        /\ realtime.frames < MaxFrames
        /\ inferred \/ detected.person_count = 0
        /\ IF inferred /\ draw_detections_raises(person_count)
           THEN /\ response = "ok" /\ dt = 0
                /\ realtime' = [realtime EXCEPT !.frames = frame_count,
                                                !.running = FALSE,
                                                !.person_count = person_count,
                                                !.runs = runs]
                /\ UNCHANGED <<variant_vars, remote>>
           ELSE /\ var_history' = [var_history EXCEPT ![d] = history]
                /\ var_ret' = [var_ret EXCEPT ![d] = stable_presence]
                /\ var_inputs' = [var_inputs EXCEPT ![d] = Append(@, person_count)]
                /\ realtime' =
                       [frames |-> frame_count, running |-> TRUE,
                        person_count |-> person_count, runs |-> runs,
                        window |-> realtime_window(realtime.window, runs,
                                                   person_count),
                        current_time |-> current_time,
                        last_update |-> IF due THEN current_time
                                        ELSE realtime.last_update,
                        called |-> due]
                /\ IF due THEN remote' \in detector_write(call)
                   ELSE response = "ok" /\ remote' = remote
        /\ UNCHANGED <<state, climate_state, lock, pc, msg, todo, payload, bclock,
                       received, hist, ever_known, prev, trail, latest,
                       connection, subscriptions, lost, heap, refs, held>>
        /\ UNCHANGED <<aq_written, gpu, smart, simple, mqtt_queue, ticks,
                       between>>
        /\ UNCHANGED <<debouncer_vars, fuser_vars, aq_vars>>

(***************************************************************************)
(* SimplePresenceDetector.run_detection and update_firebase                *)
(* (simple_presence.py, lines 91-113 and 146-216).  The frames of one       *)
(* second matter here, so the times of this loop are in ticks,              *)
(* TicksPerSecond of them to the second.                                    *)
(***************************************************************************)
simple_update_interval == 2
hog_detection_interval == 1

\* x seconds in ticks, and the whole seconds in a number of ticks
in_ticks(seconds) == seconds * TicksPerSecond
whole_seconds(t) == t \div TicksPerSecond

S_AI_Camera_ == <<"A", "I", "_", "C", "a", "m", "e", "r", "a", "_">>
S_HOG == <<"H", "O", "G">>
S_Timeout == <<"T", "i", "m", "e", "o", "u", "t">>
S_Motion == <<"M", "o", "t", "i", "o", "n">>
S_None == <<"N", "o", "n", "e">>

\* lines 178-187: the method shown and sent along (the seconds left that
\* the Timeout label carries in brackets are left out)
detection_method_of(final_presence, hog_detected, time_since_hog) ==
    IF ~final_presence THEN S_None
    ELSE IF hog_detected THEN S_HOG
    ELSE IF time_since_hog < in_ticks(person_timeout) THEN S_Timeout
    ELSE S_Motion

\* lines 93-113: the data written; what requests.patch raises is caught
simple_update_firebase(presence, detection_method, response, now) ==
    [response |-> response,
     ai_data |-> [presence |-> PyBool(presence),
                  ts |-> PyInt(whole_seconds(now * 1000)),
                  source |-> PyStr(S_AI_Camera_ \o detection_method)]]

\* lines 24-33 and 147-151
InitialSimple ==
    [frames |-> 0, current_time |-> in_ticks(BootTime),
     last_update |-> 0, last_hog_detection |-> 0,
     hog_detected |-> FALSE, motion_detected |-> FALSE,
     last_person_detected |-> 0, final_presence |-> FALSE, called |-> FALSE,
     hog_run_at |-> NoTime, hog_ran |-> FALSE, motion_since |-> FALSE]

\* lines 154-216: one pass of the while loop.  The motion detector runs on
\* every frame, the HOG detector when hog_detection_interval has passed since
\* its latest run; hybrid_presence_detection is called on every frame with
\* the hog_detected of the latest HOG run.  A difference of two times is
\* below person_timeout, a whole number of seconds, exactly when its whole
\* seconds are.
simple_run_detection(hog, motion, dt, response) ==
    LET current_time == simple.current_time + dt
        hog_due == current_time - simple.last_hog_detection
                       >= in_ticks(hog_detection_interval)
        hog_detected == IF hog_due THEN hog ELSE simple.hog_detected
        elapsed == current_time - simple.last_person_detected
        final_presence == hybrid_result(hog_detected, motion,
                                        whole_seconds(elapsed), 0)
        last == hybrid_last(hog_detected, motion, current_time,
                            simple.last_person_detected)
        detection_method ==
            detection_method_of(final_presence, hog_detected, current_time - last)
        due == current_time - simple.last_update >= in_ticks(simple_update_interval)
        call == simple_update_firebase(final_presence, detection_method,
                                       response, current_time)
    IN  /\ simple.frames < MaxFrames
        /\ hog_due \/ ~hog
        /\ simple' =
               [frames |-> simple.frames + 1, current_time |-> current_time,
                last_update |-> IF due THEN current_time ELSE simple.last_update,
                last_hog_detection |-> IF hog_due THEN current_time
                                       ELSE simple.last_hog_detection,
                hog_detected |-> hog_detected, motion_detected |-> motion,
                last_person_detected |-> last,
                final_presence |-> final_presence, called |-> due,
                hog_run_at |-> IF hog_due /\ hog THEN current_time
                               ELSE simple.hog_run_at,
                hog_ran |-> hog_due,
                motion_since |-> IF hog_due /\ hog THEN FALSE
                                 ELSE simple.motion_since \/ motion]
        /\ IF due THEN remote' \in detector_write(call)
           ELSE response = "ok" /\ remote' = remote
        /\ UNCHANGED <<state, climate_state, lock, pc, msg, todo, payload, bclock,
                       received, hist, ever_known, prev, trail, latest,
                       connection, subscriptions, lost, heap, refs, held>>
        /\ UNCHANGED <<aq_written, gpu, smart, realtime, mqtt_queue, ticks,
                       between>>
        /\ UNCHANGED <<debouncer_vars, fuser_vars, variant_vars, aq_vars>>

(***************************************************************************)
(* The loop of the MQ-135 publisher (pi_mq135_publisher.py, lines 96-145).  *)
(* It publishes on sensors/air/aq, a topic the bridge is not subscribed to, *)
(* and writes to climate/roomA/state, the document the bridge writes its    *)
(* climate section to (ROOM_ID and FIREBASE_URL, lines 35-36, are the       *)
(* bridge's defaults, lines 30-31 there).                                   *)
(***************************************************************************)
S_Moderate == <<"M", "o", "d", "e", "r", "a", "t", "e">>
S_alert_poor ==
    <<"A", "l", "e", "r", "t", ",", " ", "a", "i", "r", " ", "q", "u",
     "a", "l", "i", "t", "y", " ", "p", "o", "o", "r">>
S_alert_moderate ==
    <<"W", "a", "r", "n", "i", "n", "g", ",", " ", "a", "i", "r", " ",
     "q", "u", "a", "l", "i", "t", "y", " ", "m", "o", "d", "e", "r", "a",
     "t", "e">>

\* the texts of what classify_air_quality returned
status_text(status) ==
    CASE status = "Poor" -> S_Poor
      [] status = "Moderate" -> S_Moderate
      [] OTHER -> S_Good
alert_text(status) ==
    CASE status = "Poor" -> S_alert_poor
      [] status = "Moderate" -> S_alert_moderate
      [] OTHER -> <<>>

\* lines 119-124
firebase_data_of(raw_value, timestamp) ==
    LET status == classify_air_quality(raw_value).status
    IN  [aqRaw |-> PyInt(raw_value),
         aqStatus |-> PyStr(status_text(status)),
         aqAlert |-> PyStr(alert_text(status)),
         ts |-> PyInt(timestamp)]

\* the readings of the sensor: the last Good one, the first Moderate one, the
\* first Poor one
RawInputs == {AQ_GOOD_MAX, AQ_GOOD_MAX + 1, AQ_MODERATE_MAX + 1}

\* lines 97-134: one reading classified, published and mirrored to the remote
\* store; what requests.patch raises is caught (lines 132-133)
publish_reading(raw_value, response) ==
    /\ \E timestamp \in bclock..MaxStamp :
        LET firebase_data == firebase_data_of(raw_value, timestamp)
            written == [remote EXCEPT !.climate = firebase_patch(@, firebase_data)]
        IN  /\ ReadClock(timestamp)
            /\ \/ /\ response \in {"ok", "timeout"}
                  /\ remote' = written
                  /\ aq_written' = [f \in {"aqRaw", "aqStatus"} |-> firebase_data[f]]
               \/ /\ response # "ok"
                  /\ remote' = remote
                  /\ aq_written' = aq_written
    /\ aq_raw' = raw_value
    /\ aq_result' = classify_air_quality(raw_value)
    /\ UNCHANGED <<state, climate_state, lock, pc, msg, todo, payload,
                   received, hist, ever_known, prev, trail, latest,
                   connection, subscriptions, lost, heap, refs, held>>
    /\ UNCHANGED <<gpu, smart, realtime, simple, mqtt_queue, ticks, between>>
    /\ UNCHANGED <<debouncer_vars, fuser_vars, variant_vars>>

\* nothing written, no frame read, nothing published yet
InitPeers ==
    /\ aq_written = NoUpdate
    /\ gpu = InitialGpu
    /\ smart = InitialSmart
    /\ realtime = InitialRealtime
    /\ simple = InitialSimple
    /\ mqtt_queue = <<>>
    /\ ticks = {}
    /\ between = [h \in Handlers |-> FALSE]

Init ==
    /\ InitDebouncer /\ InitFuser /\ InitBridge /\ InitVariants /\ InitAirQuality
    /\ InitPeers

NextDebouncer == \E person_count \in 0..MaxCount : stable_presence_detection(person_count)

SpecDebouncer == Init /\ [][NextDebouncer]_vars

NextFuser ==
    \/ \E hog_detected \in BOOLEAN, motion_detected \in BOOLEAN :
           hybrid_presence_detection(hog_detected, motion_detected)
    \/ Tick

SpecFuser == Init /\ [][NextFuser]_vars

\* The bridge as it runs: paho's loop_forever() calls on_message on one thread,
\* one message after the other.
Next ==
    \/ Receive(MainThread, Inbox, MaxMsgs) /\ UNCHANGED <<prev, trail, latest, env_vars>>
    \/ AcquireForMerge(MainThread) /\ UNCHANGED <<prev, trail, latest, env_vars>>
    \/ Merge(MainThread) /\ UNCHANGED <<prev, trail, latest, env_vars>>
    \/ AcquireForCopy(MainThread) /\ UNCHANGED <<prev, trail, latest, env_vars>>
    \/ Copy(MainThread) /\ UNCHANGED <<prev, trail, latest, env_vars>>
    \/ Send(MainThread, Answered) /\ UNCHANGED <<prev, trail, latest, env_vars>>

Spec == Init /\ [][Next]_vars

\* The bridge as it runs, remembering the message before the latest one.
NextCommute ==
    \/ /\ Receive(MainThread, Inbox, MaxPairMsgs)
       /\ prev' = hist[MainThread]
       /\ UNCHANGED <<trail, latest, env_vars>>
    \/ AcquireForMerge(MainThread) /\ UNCHANGED <<prev, trail, latest, env_vars>>
    \/ Merge(MainThread) /\ UNCHANGED <<prev, trail, latest, env_vars>>
    \/ AcquireForCopy(MainThread) /\ UNCHANGED <<prev, trail, latest, env_vars>>
    \/ Copy(MainThread) /\ UNCHANGED <<prev, trail, latest, env_vars>>
    \/ Send(MainThread, Answered) /\ UNCHANGED <<prev, trail, latest, env_vars>>

SpecCommute == Init /\ [][NextCommute]_vars

\* on_message run by several threads at once, each handling one message.
NextConcurrent ==
    \E h \in Handlers :
        \/ Receive(h, ConcurrentInbox, 1) /\ UNCHANGED <<prev, trail, latest, env_vars>>
        \/ AcquireForMerge(h) /\ UNCHANGED <<prev, trail, latest, env_vars>>
        \/ Merge(h) /\ UNCHANGED <<prev, trail, latest, env_vars>>
        \/ AcquireForCopy(h) /\ UNCHANGED <<prev, trail, latest, env_vars>>
        \/ Copy(h) /\ UNCHANGED <<prev, trail, latest, env_vars>>
        \/ Send(h, Answered) /\ UNCHANGED <<prev, trail, latest, env_vars>>

SpecConcurrent == Init /\ [][NextConcurrent]_vars

\* The bridge as it runs, with a remote store that may fail any request.
NextPublish ==
    \/ /\ Receive(MainThread, PublishInbox, MaxPublishMsgs)
       /\ prev' = hist[MainThread]
       /\ UNCHANGED <<trail, latest, env_vars>>
    \/ AcquireForMerge(MainThread) /\ UNCHANGED <<prev, trail, latest, env_vars>>
    \/ Merge(MainThread) /\ UNCHANGED <<prev, trail, latest, env_vars>>
    \/ AcquireForCopy(MainThread) /\ UNCHANGED <<prev, trail, latest, env_vars>>
    \/ Copy(MainThread) /\ UNCHANGED <<prev, trail, latest, env_vars>>
    \/ /\ SendStored(MainThread, Responses)
       /\ UNCHANGED <<prev, trail, latest, connection, subscriptions, lost,
                      heap, refs, held, peer_vars>>

SpecPublish == Init /\ [][NextPublish]_vars

\* The bridge as it runs, remembering the latest three messages.
NextScenario ==
    \/ /\ Receive(MainThread, ScenarioInbox, MaxScenarioMsgs)
       /\ prev' = hist[MainThread]
       /\ trail' = Trailed(trail, msg'[MainThread])
       /\ UNCHANGED <<latest, env_vars>>
    \/ AcquireForMerge(MainThread) /\ UNCHANGED <<prev, trail, latest, env_vars>>
    \/ Merge(MainThread) /\ UNCHANGED <<prev, trail, latest, env_vars>>
    \/ AcquireForCopy(MainThread) /\ UNCHANGED <<prev, trail, latest, env_vars>>
    \/ Copy(MainThread) /\ UNCHANGED <<prev, trail, latest, env_vars>>
    \/ Send(MainThread, Answered) /\ UNCHANGED <<prev, trail, latest, env_vars>>

SpecScenario == Init /\ [][NextScenario]_vars

\* The bridge as it runs, remembering the latest payload of each topic.
NextLatest ==
    \/ /\ Receive(MainThread, LatestInbox, MaxLatestMsgs)
       /\ latest' = [latest EXCEPT ![msg'[MainThread].topic] =
                                       msg'[MainThread].data]
       /\ UNCHANGED <<prev, trail, env_vars>>
    \/ AcquireForMerge(MainThread) /\ UNCHANGED <<prev, trail, latest, env_vars>>
    \/ Merge(MainThread) /\ UNCHANGED <<prev, trail, latest, env_vars>>
    \/ AcquireForCopy(MainThread) /\ UNCHANGED <<prev, trail, latest, env_vars>>
    \/ Copy(MainThread) /\ UNCHANGED <<prev, trail, latest, env_vars>>
    \/ Send(MainThread, Answered) /\ UNCHANGED <<prev, trail, latest, env_vars>>

SpecLatest == Init /\ [][NextLatest]_vars

\* The bridge as it runs, on a connection that can be lost and made again.
NextTransport ==
    \/ Deliver(WellFormed, MaxTransportMsgs) /\ UNCHANGED <<prev, trail, latest, env_vars>>
    \/ AcquireForMerge(MainThread) /\ UNCHANGED <<prev, trail, latest, env_vars>>
    \/ Merge(MainThread) /\ UNCHANGED <<prev, trail, latest, env_vars>>
    \/ AcquireForCopy(MainThread) /\ UNCHANGED <<prev, trail, latest, env_vars>>
    \/ Copy(MainThread) /\ UNCHANGED <<prev, trail, latest, env_vars>>
    \/ Send(MainThread, Answered) /\ UNCHANGED <<prev, trail, latest, env_vars>>
    \/ Disconnect
    \/ \E success \in BOOLEAN : Reconnect(success)

SpecTransport == Init /\ [][NextTransport]_vars

\* on_message run by several threads at once on presence messages, each
\* thread noting the detection merges that fall between its two copies.
NextPair ==
    \E h \in PairThreads :
        \/ Receive(h, PairInbox, 1) /\ UNCHANGED <<prev, trail, latest, env_vars>>
        \/ AcquireForMerge(h) /\ UNCHANGED <<prev, trail, latest, env_vars>>
        \/ /\ MergePair(h)
           /\ UNCHANGED <<prev, trail, latest, connection, subscriptions, lost,
                          remote, heap, refs, held>>
           /\ UNCHANGED <<aq_written, gpu, smart, realtime, simple, mqtt_queue,
                          ticks>>
        \/ AcquireForCopy(h) /\ UNCHANGED <<prev, trail, latest, env_vars>>
        \/ /\ CopyPair(h)
           /\ UNCHANGED <<prev, trail, latest, connection, subscriptions, lost,
                          remote, heap, refs, held>>
           /\ UNCHANGED <<aq_written, gpu, smart, realtime, simple, mqtt_queue,
                          ticks>>
        \/ Send(h, Answered) /\ UNCHANGED <<prev, trail, latest, env_vars>>

SpecPair == Init /\ [][NextPair]_vars

\* ForceGPUYOLODetector.run_detection, frame after frame, with a remote store
\* that may fail any request.
NextGpu ==
    \E detected \in Detections, dt \in {0, update_interval}, response \in Responses :
        gpu_run_detection(detected, dt, response)

SpecGpu == Init /\ [][NextGpu]_vars

\* SmartLightingAI.run_detection, frame after frame, with a remote store that
\* may fail any request.
NextSmart ==
    \E detected \in SmartDetections, dt \in {0, 1, firebase_interval},
       response \in Responses :
        smart_run_detection(detected, dt, response)

SpecSmart == Init /\ [][NextSmart]_vars

\* AIPresenceDetector.run_detection, frame after frame, with a remote store
\* that may fail any request.
NextRealtime ==
    \E detected \in SmartDetections, dt \in 0..realtime_update_interval,
       response \in Responses :
        realtime_run_detection(detected, dt, response)

SpecRealtime == Init /\ [][NextRealtime]_vars

\* the time from one frame to the next: a tick, just under or exactly the
\* interval of the HOG detector, just under the timeout
FrameGaps ==
    {1, in_ticks(hog_detection_interval) - 1, in_ticks(hog_detection_interval),
     in_ticks(person_timeout) - 1}

\* SimplePresenceDetector.run_detection, frame after frame, with a remote
\* store that may fail any request.
NextSimple ==
    \E hog \in BOOLEAN, motion \in BOOLEAN, dt \in FrameGaps,
       response \in Responses :
        simple_run_detection(hog, motion, dt, response)

SpecSimple == Init /\ [][NextSimple]_vars

\* The bridge as it runs beside the MQ-135 publisher, both writing to the
\* remote store.
NextMirror ==
    \/ Receive(MainThread, MirrorInbox, MaxMirrorMsgs) /\ UNCHANGED <<prev, trail, latest, env_vars>>
    \/ AcquireForMerge(MainThread) /\ UNCHANGED <<prev, trail, latest, env_vars>>
    \/ Merge(MainThread) /\ UNCHANGED <<prev, trail, latest, env_vars>>
    \/ AcquireForCopy(MainThread) /\ UNCHANGED <<prev, trail, latest, env_vars>>
    \/ Copy(MainThread) /\ UNCHANGED <<prev, trail, latest, env_vars>>
    \/ /\ SendStored(MainThread, Answered)
       /\ UNCHANGED <<prev, trail, latest, connection, subscriptions, lost,
                      heap, refs, held, peer_vars>>
    \/ \E raw_value \in RawInputs, response \in Responses :
           publish_reading(raw_value, response)

SpecMirror == Init /\ [][NextMirror]_vars

\* The bridge fed by ForceGPUYOLODetector through the broker: the bridge
\* handles the messages one after the other, in the order they were published.
NextTicks ==
    \/ /\ mqtt_queue # <<>>
       /\ Receive(MainThread, {Head(mqtt_queue)}, 3 * MaxUpdates)
       /\ mqtt_queue' = Tail(mqtt_queue)
       /\ UNCHANGED <<prev, trail, latest, connection, subscriptions, lost,
                      remote, heap, refs, held>>
       /\ UNCHANGED <<aq_written, gpu, smart, realtime, simple, ticks, between>>
    \/ AcquireForMerge(MainThread) /\ UNCHANGED <<prev, trail, latest, env_vars>>
    \/ Merge(MainThread) /\ UNCHANGED <<prev, trail, latest, env_vars>>
    \/ AcquireForCopy(MainThread) /\ UNCHANGED <<prev, trail, latest, env_vars>>
    \/ Copy(MainThread) /\ UNCHANGED <<prev, trail, latest, env_vars>>
    \/ /\ SendStored(MainThread, Answered)
       /\ UNCHANGED <<prev, trail, latest, connection, subscriptions, lost,
                      heap, refs, held, peer_vars>>
    \/ \E detected \in Detections, response \in Responses :
           gpu_publish(detected, response)

SpecTicks == Init /\ [][NextTicks]_vars

\* One detector of the four, called frame after frame.
NextVariants ==
    \/ \E person_count \in 0..MaxCount :
           /\ \A d \in OtherDetectors : var_inputs[d] = <<>>
           /\ stable_presence_detection(person_count)
    \/ \E d \in OtherDetectors, person_count \in 0..MaxCount :
           /\ deb_inputs = <<>>
           /\ \A e \in OtherDetectors \ {d} : var_inputs[e] = <<>>
           /\ variant_stable_presence_detection(d, person_count)

SpecVariants == Init /\ [][NextVariants]_vars

\* classify_air_quality applied to reading after reading.
NextAirQuality == \E raw_value \in 0..MaxRaw : Classify(raw_value)

SpecAirQuality == Init /\ [][NextAirQuality]_vars

\* on_message run by several threads at once, with the dict objects the
\* sections and the payloads refer to.
NextSnapshot ==
    \E h \in Handlers :
        \/ /\ Receive(h, SnapshotInbox, 1)
           /\ UNCHANGED <<prev, trail, latest, env_vars>>
        \/ /\ AcquireForMerge(h)
           /\ UNCHANGED <<prev, trail, latest, env_vars>>
        \/ /\ MergeObjects(h)
           /\ UNCHANGED <<prev, trail, latest, connection, subscriptions,
                          lost, remote, peer_vars>>
        \/ /\ AcquireForCopy(h)
           /\ UNCHANGED <<prev, trail, latest, env_vars>>
        \/ /\ CopyObjects(h)
           /\ UNCHANGED <<prev, trail, latest, connection, subscriptions,
                          lost, remote, peer_vars>>
        \/ /\ SendObjects(h, Answered)
           /\ UNCHANGED <<prev, trail, latest, connection, subscriptions,
                          lost, remote, peer_vars>>

SpecSnapshot == Init /\ [][NextSnapshot]_vars

(***************************************************************************)
(* Claims about the debouncer (checked under SpecDebouncer)                *)
(***************************************************************************)
deb_called == deb_inputs # <<>>
deb_last_count == deb_inputs[Len(deb_inputs)]

\* C1: zero-delay-off. A call to stable_presence_detection with
\* person_count = 0 returns False on that same call, whatever the history.
C1_ZeroDelayOff ==
    (deb_called /\ deb_last_count = 0) => deb_ret = FALSE

\* C1 witness: a call with person_count = 0 made while the window is full and
\* still holds at least two positive samples.
C1_Witness ==
    /\ deb_called /\ deb_last_count = 0
    /\ Len(detection_history) = history_size
    /\ sum(detection_history) >= 2

\* C2 as stated: whenever the window is full after a call and holds at least
\* two positive samples, the call returned True.
C2_MajorityAsStated ==
    (deb_called /\ Len(detection_history) = history_size
                /\ sum(detection_history) >= 2)
        => deb_ret = TRUE

\* C2 amended: whenever the window is full after a call, holds at least two
\* positive samples, and the call's own person_count is positive, the call
\* returned True.
C2_MajorityWhenPositive ==
    (deb_called /\ Len(detection_history) = history_size
                /\ sum(detection_history) >= 2
                /\ deb_last_count > 0)
        => deb_ret = TRUE

\* C2 witness: a positive call on a full window holding exactly two positives.
C2_Witness ==
    /\ deb_called /\ deb_last_count > 0
    /\ Len(detection_history) = history_size
    /\ sum(detection_history) = 2
    /\ deb_ret = TRUE

(***************************************************************************)
(* Claims about the timeout fuser (checked under SpecFuser)                *)
(***************************************************************************)
\* C3: grace period. If the primary signal was true at t0 and every later call
\* had primary and motion false, a call at t with t0 <= t < t0 + person_timeout
\* returns True and a call at t > t0 + person_timeout returns False.
C3_GracePeriod ==
    (hyb.called /\ last_hog_at # NoTime /\ quiet) =>
        /\ (hyb.at < last_hog_at + person_timeout => hyb.ret = TRUE)
        /\ (hyb.at > last_hog_at + person_timeout => hyb.ret = FALSE)

\* C3 witnesses: a quiet call inside the grace period, and one after it.
C3_Witness ==
    /\ hyb.called /\ last_hog_at # NoTime /\ quiet /\ ~hyb.hog
    /\ hyb.at > last_hog_at + person_timeout
    /\ hyb.ret = FALSE

C3_WitnessInside ==
    /\ hyb.called /\ last_hog_at # NoTime /\ quiet /\ ~hyb.hog
    /\ hyb.at = last_hog_at + person_timeout - 1
    /\ hyb.ret = TRUE

\* C4: the three rules in order. The call returns True and sets
\* last_person_detected to the current time when hog_detected; otherwise True
\* when now - last_person_detected < person_timeout; otherwise motion_detected.
\* last_person_detected is unchanged by a call with hog_detected false.
C4_RulesInOrder ==
    hyb.called =>
        /\ hyb.hog => (hyb.ret = TRUE /\ last_person_detected = hyb.at)
        /\ (~hyb.hog /\ hyb.at - hyb.before < person_timeout) => hyb.ret = TRUE
        /\ (~hyb.hog /\ ~(hyb.at - hyb.before < person_timeout))
               => hyb.ret = hyb.motion
        /\ ~hyb.hog => last_person_detected = hyb.before

\* C4 witness: the third rule decided the call (no primary, grace period over,
\* motion true).
C4_Witness ==
    /\ hyb.called /\ ~hyb.hog /\ hyb.motion
    /\ hyb.at - hyb.before >= person_timeout
    /\ hyb.before > 0
    /\ hyb.ret = TRUE

(***************************************************************************)
(* Claims about the bridge                                                 *)
(***************************************************************************)
\* the latest message of the network thread, as recorded when it was handled
last == hist[MainThread]
Lacks(key) == is_dict(last.data) /\ key \notin DOMAIN last.data.obj
\* on_message has returned for the latest message
Returned == last.outcome # "none" /\ pc[MainThread] = "idle"

\* C5: field-level merge. When on_message has handled a structured message
\* that lacks one of its keys, the stored value of the missing key is what it
\* was before the message.
C5_MissingKeyKeepsValue ==
    (Returned /\ is_dict(last.data)) =>
        /\ (last.topic = T_led_state /\ Lacks("pwm"))
               => state.led.pwm = last.pre_state.led.pwm
        /\ (last.topic = T_led_state /\ Lacks("on"))
               => state.led.on = last.pre_state.led.on
        /\ (last.topic = T_fan_state /\ Lacks("mode"))
               => climate_state.mode = last.pre_climate.mode
        /\ (last.topic = T_fan_state /\ Lacks("band"))
               => climate_state.comfortBand = last.pre_climate.comfortBand
        /\ (last.topic = T_fan_state /\ Lacks("on"))
               => climate_state.fan.on = last.pre_climate.fan.on
        /\ (last.topic = T_fan_state /\ Lacks("pwm"))
               => climate_state.fan.pwm = last.pre_climate.fan.pwm
        /\ (last.topic = T_temperature /\ Lacks("c"))
               => climate_state.tempC = last.pre_climate.tempC
        /\ (last.topic = T_humidity /\ Lacks("rh"))
               => climate_state.humidity = last.pre_climate.humidity
        /\ (last.topic = T_quality_raw /\ Lacks("mq135"))
               => climate_state.aqRaw = last.pre_climate.aqRaw
        /\ (last.topic = T_quality_status /\ Lacks("status"))
               => climate_state.aqStatus = last.pre_climate.aqStatus

\* C6: no regression to unknown. Once ldrRaw, tempC, humidity or aqRaw has held
\* a value other than None, it is not None in any later state.
C6_NeverBackToNone ==
    /\ ("ldrRaw" \in ever_known => state.ldrRaw # PyNone)
    /\ \A f \in {"tempC", "humidity", "aqRaw"} :
           f \in ever_known => climate_state[f] # PyNone

\* C6 witness: a reading is known, and on_message has then returned from a
\* message on its topic that carries no usable value for it.
C6_Witness ==
    /\ Returned
    /\ \/ "ldrRaw" \in ever_known /\ last.topic = T_brightness
          /\ last.outcome = "decode_error"
       \/ "tempC" \in ever_known /\ last.topic = T_temperature /\ Lacks("c")

\* the keys of both sections a recorded message assigns
Effect(h) == route(h.topic, h.data, h.timestamp)
Written(h) ==
    {<<"lighting", f>> : f \in DOMAIN Effect(h).lighting}
        \cup {<<"climate", f>> : f \in DOMAIN Effect(h).climate}
\* both sections after a recorded message is handled from the sections S
After(S, h) ==
    [state |-> merge(S.state, Effect(h).lighting),
     climate_state |-> merge(S.climate_state, Effect(h).climate)]
Sections == [state |-> state, climate_state |-> climate_state]

\* C7: no lost updates. When the handlers running side by side have all
\* returned and their messages assign pairwise disjoint keys, the final state
\* holds every value that every handler assigned.
AllReturned == \A h \in Handlers : pc[h] = "idle" /\ hist[h].outcome = "applied"
PairwiseDisjoint ==
    \A h1, h2 \in Handlers :
        h1 # h2 => Written(hist[h1]) \cap Written(hist[h2]) = {}
C7_NoLostUpdate ==
    (AllReturned /\ PairwiseDisjoint) =>
        \A h \in Handlers :
            /\ \A f \in DOMAIN Effect(hist[h]).lighting :
                   state[f] = Effect(hist[h]).lighting[f]
            /\ \A f \in DOMAIN Effect(hist[h]).climate :
                   climate_state[f] = Effect(hist[h]).climate[f]

\* C7 witness: every handler has merged and returned, the keys are disjoint,
\* and the first handler merged into a state the second had already changed
\* (its merge came after the other's although it is listed first).
C7_Witness ==
    /\ AllReturned /\ PairwiseDisjoint
    /\ \A h \in Handlers : Written(hist[h]) # {}
    /\ hist[1].pre_state # InitialState \/ hist[1].pre_climate # InitialClimateState

\* C7, a second witness: one handler is inside its merge while the other is
\* waiting for the remote store with its own merge already done.
C7_WitnessOverlap ==
    /\ pc[1] = "merge" /\ lock = 1
    /\ pc[2] = "send"
    /\ Written(hist[1]) \cap Written(hist[2]) = {}

\* C8: commutativity on disjoint keys. When the last two messages A then B
\* assign disjoint sets of keys, the state after A then B equals the state
\* that handling B then A from the same starting state gives.
PairHandled == prev.outcome # "none" /\ Returned
C8_CommuteOnDisjoint ==
    (PairHandled /\ Written(prev) \cap Written(last) = {}) =>
        Sections =
            After(After([state |-> prev.pre_state,
                         climate_state |-> prev.pre_climate], last), prev)

\* C8 witness: two messages that both assign keys, of disjoint sets, one of
\* them to both sections.
C8_Witness ==
    /\ PairHandled
    /\ Written(prev) # {} /\ Written(last) # {}
    /\ Written(prev) \cap Written(last) = {}
    /\ last.topic = T_detection

\* the latest message is one of the malformed payloads
LastIsMalformed ==
    \E m \in Malformed :
        last.topic = m.topic /\ last.data = decode_utf8(m.payload)

\* C9: defensive decoding. When on_message has been given a payload that is
\* not numeric, or not a JSON object, where the topic expects one, it returns
\* without raising, both sections are what they were before the message, and
\* nothing is published for it; the message after it is handled as usual.
C9_MalformedIsDropped ==
    /\ (LastIsMalformed /\ last.outcome # "handling") =>
           /\ last.outcome = "decode_error"
           /\ pc[MainThread] = "idle"
           /\ state = last.pre_state
           /\ climate_state = last.pre_climate
           /\ last.published = <<>>
           /\ todo[MainThread] = <<>>
    /\ (prev.outcome = "decode_error" /\ Returned) =>
           /\ Sections = After([state |-> last.pre_state,
                                climate_state |-> last.pre_climate], last)
           /\ Len(last.published) = Len(Effect(last).publish)

\* C9 witness: a malformed message was dropped after a message had set a
\* value, and ... the state still holds that value.
C9_Witness ==
    /\ LastIsMalformed /\ Returned
    /\ prev.outcome = "applied"
    /\ state # InitialState

\* C9 second witness: the message after a dropped one was applied.
C9_WitnessNext ==
    /\ prev.outcome = "decode_error" /\ Returned
    /\ last.outcome = "applied" /\ last.published # <<>>

\* C10: unknown topics are dropped. A message whose topic is none of the
\* eleven subscribed topics leaves both sections unchanged, publishes nothing
\* and does not raise.
C10_UnknownTopicDropped ==
    (last.outcome # "none" /\ last.topic \notin Subscribed) =>
        /\ last.outcome = "unrouted"
        /\ pc[MainThread] = "idle"
        /\ state = last.pre_state
        /\ climate_state = last.pre_climate
        /\ last.published = <<>>
        /\ todo[MainThread] = <<>>
        /\ lock = NoThread

\* C10 witness: an unknown topic arrived after another message had changed the
\* state.
C10_Witness ==
    /\ last.outcome = "unrouted"
    /\ last.topic \notin Subscribed
    /\ state # InitialState

(***************************************************************************)
(* Claims about publishing (checked under SpecPublish)                     *)
(***************************************************************************)
\* the attempts made for a recorded message
Attempts(h) == DOMAIN h.published
\* some request.patch of a recorded message raised (exception or timeout)
PublishRaised(h) == \E i \in Attempts(h) : raises(h.published[i].response)
\* both sections as they were when a recorded message was merged
Before(h) == [state |-> h.pre_state, climate_state |-> h.pre_climate]

\* C11: publish failures are contained. When requests.patch raises or times
\* out inside patch_state or patch_climate_state, no exception leaves the
\* publish function (so none reaches on_message, and the sections still to
\* patch are patched), both sections stay what the merge made them, and the
\* next message is taken and merged as usual.
C11_PublishFailureContained ==
    /\ \A i \in Attempts(last) : last.published[i].result # "raised"
    /\ PublishRaised(last) =>
           /\ last.outcome = "applied"
           /\ Sections = After(Before(last), last)
           /\ Returned => Len(last.published) = Len(Effect(last).publish)
    /\ (PublishRaised(prev) /\ last.outcome \notin {"none", "handling"}) =>
           /\ last.outcome = IF Effect(last).ok THEN "applied"
                             ELSE IF last.topic \in Subscribed
                             THEN "decode_error" ELSE "unrouted"
           /\ Sections = After(Before(last), last)
           /\ Returned => Len(last.published) = Len(Effect(last).publish)

\* C11 witness: a publish of the previous message raised, and the message
\* after it was merged and published.
C11_Witness ==
    /\ PublishRaised(prev) /\ Returned
    /\ last.outcome = "applied"
    /\ state # last.pre_state
    /\ last.published # <<>>

\* C11 second witness: the lighting patch of a detection message timed out
\* and the climate patch was still sent.
C11_WitnessSecondPatch ==
    /\ Returned /\ last.topic = T_detection
    /\ Len(last.published) = 2
    /\ last.published[1].response = "timeout"
    /\ last.published[2].section = "climate"

\* attempts i and j of a recorded message carry the same job
SameJob(h, i, j) ==
    /\ h.published[i].section = h.published[j].section
    /\ h.published[i].body = h.published[j].body

\* C12: bounded retry. Once on_message has returned, every failed attempt
\* (an exception, a timeout or a status other than 2xx) was either followed
\* by a retry of the same job or was itself the last of one to three
\* retries.
C12_BoundedRetry ==
    Returned =>
        \A i \in Attempts(last) :
            last.published[i].response # "ok" =>
                \/ i + 1 \in Attempts(last) /\ SameJob(last, i, i + 1)
                \/ \E n \in 1..3 :
                       /\ i - n \in Attempts(last)
                       /\ \A j \in (i - n)..(i - 1) :
                              /\ SameJob(last, j, i)
                              /\ last.published[j].response # "ok"

\* C13: publishing never backpressures ingestion. While a request to the
\* remote store is in flight and a further message is waiting, the bridge
\* can take that message.
C13_NoBackpressure ==
    (pc[MainThread] = "send" /\ received[MainThread] < MaxPublishMsgs) =>
        ENABLED Receive(MainThread, PublishInbox, MaxPublishMsgs)

(***************************************************************************)
(* Claims about the lock and the clock (checked under SpecConcurrent)      *)
(***************************************************************************)
\* C14: the merge is purely in-memory. No thread holds the lock while its
\* request to the remote store is in progress; the lock is held only
\* inside the two `with lock:` blocks.
C14_NoLockDuringNetworkCall ==
    \A h \in Handlers :
        /\ pc[h] = "send" => lock # h
        /\ lock = h => pc[h] \in {"merge", "copy"}

\* C14 witness: one thread is waiting for the remote store with its copy
\* taken while another thread holds the lock.
C14_Witness ==
    /\ pc[1] = "send" /\ payload[1] # NoPayload
    /\ lock = 2 /\ pc[2] = "merge"

IsTimestamp(f) == f \in {"ai_timestamp", "timestamp"}

\* C16 (under Spec): every merge stamps an update timestamp. A message that
\* was applied assigned a timestamp field of each section it assigned to,
\* and every payload sent for it carries a timestamp field.
C16_EveryMergeStamps ==
    last.outcome = "applied" =>
        /\ DOMAIN Effect(last).lighting # {} =>
               \E f \in DOMAIN Effect(last).lighting : IsTimestamp(f)
        /\ DOMAIN Effect(last).climate # {} =>
               \E f \in DOMAIN Effect(last).climate : IsTimestamp(f)
        /\ \A i \in Attempts(last) :
               \E f \in DOMAIN last.published[i].body : IsTimestamp(f)

\* the latest k messages of the trail, oldest first
Latest(k) ==
    IF Len(trail) < k THEN <<>> ELSE SubSeq(trail, Len(trail) - k + 1, Len(trail))
Told(topic, raw) == [topic |-> topic, data |-> decode_utf8(raw)]
PresenceScenario ==
    <<Told(T_detection, Scalar(S_true)),
      Told(T_count, Scalar(<<"2">>)),
      Told(T_confidence, Scalar(<<"0", ".", "8", "5">>))>>
AirQualityScenario ==
    <<Told(T_quality_raw, JsonObject([k \in {"mq135"} |-> PyInt(450)])),
      Told(T_quality_status, JsonObject([k \in {"status"} |-> PyStr(S_Poor)]))>>
\* the payloads sent for the lighting section by the latest message
LightingSent ==
    SelectSeq(last.published, LAMBDA j : j.section = "lighting")

\* C17 (under SpecScenario): end-to-end presence scenario. From any state,
\* once on_message has returned from detection "true", count "2" and
\* confidence "0.85" in that order, the lighting state holds ai_presence True,
\* ai_people_count 2 and ai_confidence 0.85, and so does the last lighting
\* payload sent.
C17_PresenceScenario ==
    (Latest(3) = PresenceScenario /\ Returned) =>
        /\ state.ai_presence = PyBool(TRUE)
        /\ state.ai_people_count = PyInt(2)
        /\ state.ai_confidence = PyFloat(85)
        /\ LightingSent # <<>>
        /\ LET sent == LightingSent[Len(LightingSent)].body
           IN  /\ sent.ai_presence = PyBool(TRUE)
               /\ sent.ai_people_count = PyInt(2)
               /\ sent.ai_confidence = PyFloat(85)

\* C17 witness: the scenario was handled from a state in which the presence
\* fields had been set otherwise by an earlier message.
C17_Witness ==
    /\ Latest(3) = PresenceScenario /\ Returned
    /\ received[MainThread] > 3
    /\ prev.pre_state.ai_people_count = PyInt(0 - 1)

\* C18 (under SpecScenario): end-to-end air-quality scenario. Once
\* on_message has returned from quality_raw {mq135: 450} and then
\* quality_status {status: "Poor"}, the climate state holds aqRaw 450 and
\* aqStatus "Poor" and its other fields are what they were before the two
\* messages.
C18_AirQualityScenario ==
    (Latest(2) = AirQualityScenario /\ Returned) =>
        climate_state = [prev.pre_climate EXCEPT !.aqRaw = PyInt(450),
                                                 !.aqStatus = PyStr(S_Poor)]

\* C18 witness: the scenario was handled after a detection message had set
\* the climate section's presence.
C18_Witness ==
    /\ Latest(2) = AirQualityScenario /\ Returned
    /\ climate_state.presence = PyBool(TRUE)
    /\ climate_state.aqRaw = PyInt(450)

\* the lighting field each lighting topic carries
FieldOf(topic) ==
    CASE topic = T_brightness -> "ldrRaw"
      [] topic = T_led_state -> "led"
      [] topic = T_mode -> "mode"
      [] topic = T_detection -> "ai_presence"
      [] topic = T_count -> "ai_people_count"
      [] topic = T_confidence -> "ai_confidence"

\* C19 (under SpecLatest): latest value per topic. Once on_message has
\* returned, each lighting field equals the value decoded from the latest
\* message on its topic, or its initial value when no message came on that
\* topic, whatever the order of the topics.
C19_LatestValuePerTopic ==
    pc[MainThread] = "idle" =>
        \A topic \in LightingTopics :
            state[FieldOf(topic)] =
                IF latest[topic] = NoData THEN InitialState[FieldOf(topic)]
                ELSE route(topic, latest[topic], 0).lighting[FieldOf(topic)]

\* C19 witness: a topic has been written twice with different values, a
\* message on another topic coming in between.
C19_Witness ==
    /\ Returned /\ received[MainThread] >= 3
    /\ last.topic = T_count
    /\ last.pre_state.ai_people_count # PyInt(0)
    /\ last.pre_state.ai_people_count # state.ai_people_count
    /\ latest[T_mode] # NoData

\* C20 (under Spec): invariant violations are rejected at the boundary.
\* Whatever is received on ai/presence/count, ai_people_count in the lighting
\* state is never negative.
C20_CountNeverNegative ==
    state.ai_people_count.n >= 0

\* C21 (under Spec): immediate zeroing of transient fields. Once a
\* detection message with the value "false" has been applied, the lighting
\* state, and every lighting payload sent for that message, has
\* ai_people_count 0 and ai_confidence 0.
C21_FalseZeroesTransients ==
    (last.topic = T_detection /\ last.outcome = "applied"
        /\ lower(strip(last.data.text)) = S_false) =>
        /\ state.ai_people_count = PyInt(0)
        /\ state.ai_confidence.n = 0
        /\ \A i \in DOMAIN LightingSent :
               /\ LightingSent[i].body.ai_people_count = PyInt(0)
               /\ LightingSent[i].body.ai_confidence.n = 0

(***************************************************************************)
(* Claims about the connection (checked under SpecTransport)               *)
(***************************************************************************)
\* C22: state is retained across transport loss. From a disconnect on, as
\* long as no further message has been taken (while disconnected, while
\* reconnecting and once connected again), both sections are what they were
\* at the moment of the disconnect.
C22_StateRetained ==
    (lost.happened /\ received[MainThread] = lost.received) =>
        /\ state = lost.state
        /\ climate_state = lost.climate_state

\* C22 witness: the connection was lost with values merged, a first attempt to
\* reconnect failed, and the connection is made again.
C22_Witness ==
    /\ lost.happened /\ connection = "connected"
    /\ state # InitialState /\ climate_state # InitialClimateState
    /\ state = lost.state

\* C23: return to steady state. Once connected again after a disconnect the
\* bridge is subscribed to all eleven topics.
C23_SubscribedAfterReconnect ==
    (lost.happened /\ connection = "connected") => subscriptions = Subscribed

(***************************************************************************)
(* Claims about the payload (checked under SpecSnapshot)                   *)
(***************************************************************************)
\* C24: a publish job is an immutable point-in-time copy. While a payload is
\* waiting to be sent or being sent, what is serialized from it is what the
\* section held at the instant of the copy under the lock, nested led or fan
\* record included, whatever other handlers have merged since; and each
\* section holds what its nested object holds.
C24_PayloadIsPointInTimeCopy ==
    /\ \A h \in Handlers :
           pc[h] = "send" => Serialized(h) = payload[h].body
    /\ state.led = heap[refs.led]
    /\ climate_state.fan = heap[refs.fan]

\* C24 witness: a lighting payload is being sent while another handler has
\* replaced the led record since the copy.
C24_Witness ==
    /\ pc[1] = "send" /\ payload[1].section = "lighting"
    /\ hist[2].topic = T_led_state /\ hist[2].outcome = "applied"
    /\ state.led # payload[1].body.led
    /\ refs.led # held[1]

(***************************************************************************)
(* Claims about the remote store (checked under SpecPublish)               *)
(***************************************************************************)
FailedFor(h, section) ==
    \E i \in Attempts(h) :
        h.published[i].section = section /\ h.published[i].response # "ok"
OkFor(h, section) ==
    \E i \in Attempts(h) :
        h.published[i].section = section /\ h.published[i].response = "ok"
SectionOf(section) == IF section = "lighting" THEN state ELSE climate_state

\* C25: re-synchronisation after loss. When a publish of a section failed
\* and was dropped, and the next message's publish of the same section
\* succeeded, then until the next merge the payload of that publish holds
\* the current value of every field of the section and the remote section
\* equals the section of the bridge, field by field.
C25_ResyncAfterLoss ==
    \A section \in {"lighting", "climate"} :
        (FailedFor(prev, section) /\ OkFor(last, section)
            /\ last.outcome = "applied") =>
            /\ \A i \in Attempts(last) :
                   last.published[i].section = section
                       => last.published[i].body = SectionOf(section)
            /\ \A f \in DOMAIN SectionOf(section) :
                   remote_get(remote[section], f) = SectionOf(section)[f]

\* C25 witness: the publish of a brightness reading was dropped, and the
\* publish of a later message on another lighting topic succeeded.
C25_Witness ==
    /\ FailedFor(prev, "lighting") /\ ~OkFor(prev, "lighting")
    /\ OkFor(last, "lighting") /\ Returned
    /\ prev.topic = T_brightness /\ last.topic # T_brightness
    /\ state.ldrRaw = PyInt(2500)
    /\ remote_get(remote["lighting"], "ldrRaw") = PyInt(2500)

(***************************************************************************)
(* Further claims about the timeout fuser (checked under SpecFuser)        *)
(***************************************************************************)
\* the primary signal was positive on the latest call or on a call less than
\* person_timeout before it
PrimaryRecent ==
    hyb.hog \/ (last_hog_at # NoTime /\ hyb.at - last_hog_at < person_timeout)

\* C26 as stated: hybrid_presence_detection returns True only if the primary
\* signal was positive on the current call or on an earlier call less than
\* person_timeout seconds before.
C26_TrueOnlyWithPrimary ==
    (hyb.called /\ hyb.ret = TRUE) => PrimaryRecent

\* C26 amended: hybrid_presence_detection returns True only if the primary
\* signal was positive on the current call or on an earlier call less than
\* person_timeout seconds before, or motion_detected is true on the current
\* call.
C26_TrueOnlyWithPrimaryOrMotion ==
    (hyb.called /\ hyb.ret = TRUE) => (PrimaryRecent \/ hyb.motion)

\* C26 witness: True was returned on motion alone, no call having had the
\* primary signal.
C26_Witness ==
    /\ hyb.called /\ hyb.ret = TRUE
    /\ ~hyb.hog /\ hyb.motion
    /\ last_hog_at = NoTime

(***************************************************************************)
(* Claims about the four debouncers (checked under SpecVariants)           *)
(***************************************************************************)
\* the window a debouncer of the given size holds after the inputs
Window(inputs, size) ==
    LET n == Len(inputs)
        k == IF n < size THEN n ELSE size
    IN  [i \in 1..k |-> inputs[n - k + i] > 0]

\* C27: bounded FIFO window. After n calls detection_history has length
\* min(n, history_size) and holds the latest min(n, history_size)
\* observations person_count > 0 in the order they came.
C27_BoundedFifoWindow ==
    /\ detection_history = Window(deb_inputs, history_size)
    /\ \A d \in OtherDetectors :
           var_history[d] = Window(var_inputs[d], variant_history_size)

\* C27 witness: the window of ForceGPUYOLODetector has evicted a positive
\* observation and kept the negative ones after it.
C27_Witness ==
    /\ Len(deb_inputs) > history_size
    /\ deb_inputs[1] > 0
    /\ detection_history[1] = FALSE
    /\ detection_history[history_size] = TRUE

\* C27 second witness: the same for AIPresenceDetector.
C27_WitnessVariant ==
    /\ Len(var_inputs["AIPresenceDetector"]) > variant_history_size
    /\ var_inputs["AIPresenceDetector"][1] > 0
    /\ var_history["AIPresenceDetector"][1] = FALSE

\* C28: warm-up. The first and the second call of stable_presence_detection
\* return the raw observation person_count > 0, in each of the detectors.
C28_WarmUpReturnsRaw ==
    /\ Len(deb_inputs) \in {1, 2} => deb_ret = (deb_last_count > 0)
    /\ \A d \in OtherDetectors :
           Len(var_inputs[d]) \in {1, 2} =>
               var_ret[d] = (var_inputs[d][Len(var_inputs[d])] > 0)

\* C28 witness: a second call returned True on one positive sample, fewer
\* than the majority rule asks for.
C28_Witness ==
    /\ var_inputs["SmartLightingAI"] = <<0, 1>>
    /\ var_ret["SmartLightingAI"] = TRUE

\* C30: zero-delay-off in the other debouncers. A call with a count of 0
\* returns False on that same call, whatever the calls before.
C30_VariantsZeroDelayOff ==
    \A d \in OtherDetectors :
        (var_inputs[d] # <<>> /\ var_inputs[d][Len(var_inputs[d])] = 0)
            => var_ret[d] = FALSE

(***************************************************************************)
(* Claims about classify_air_quality (checked under SpecAirQuality)        *)
(***************************************************************************)
\* C29: the documented thresholds. A reading of 0..300 gives "Good" with an
\* empty alert, 301..400 gives "Moderate" with the warning text, 401 and
\* above gives "Poor" with the alert text; the alert is non-empty exactly
\* when the status is not "Good".
C29_DocumentedThresholds ==
    aq_raw # NoReading =>
        /\ (aq_raw >= 0 /\ aq_raw <= 300) =>
               aq_result = [status |-> "Good", alert |-> ""]
        /\ (aq_raw >= 301 /\ aq_raw <= 400) =>
               aq_result = [status |-> "Moderate",
                            alert |-> "Warning, air quality moderate"]
        /\ aq_raw >= 401 =>
               aq_result = [status |-> "Poor",
                            alert |-> "Alert, air quality poor"]
        /\ (aq_result.alert # "") <=> (aq_result.status # "Good")

\* C29 witness: the reading at the upper edge of the Good band.
C29_Witness ==
    /\ aq_raw = 300
    /\ aq_result.status = "Good"

(***************************************************************************)
(* Claims about the two sections (checked under Spec and SpecConcurrent)   *)
(***************************************************************************)
LightingOnlyTopics == {T_brightness, T_led_state, T_mode, T_count, T_confidence}
ClimateOnlyTopics ==
    {T_temperature, T_humidity, T_fan_state, T_quality_raw, T_quality_status}
\* the sections the latest message has been published to so far, in order
PublishedSections == [i \in Attempts(last) |-> last.published[i].section]

\* C31 (under Spec): section isolation. A message on a lighting-only topic
\* leaves the climate state as it was and sends no climate payload; a message
\* on a climate or air-quality topic leaves the lighting state as it was and
\* sends no lighting payload; a message on ai/presence/detection assigns keys
\* of both sections and, once on_message has returned, has published the
\* lighting section and then the climate section.
C31_SectionIsolation ==
    /\ (last.topic \in LightingOnlyTopics) =>
           /\ climate_state = last.pre_climate
           /\ \A i \in Attempts(last) : PublishedSections[i] # "climate"
           /\ "climate" \notin {todo[MainThread][i] : i \in DOMAIN todo[MainThread]}
    /\ (last.topic \in ClimateOnlyTopics) =>
           /\ state = last.pre_state
           /\ \A i \in Attempts(last) : PublishedSections[i] # "lighting"
           /\ "lighting" \notin {todo[MainThread][i] : i \in DOMAIN todo[MainThread]}
    /\ (last.topic = T_detection /\ last.outcome = "applied") =>
           /\ state.ai_presence = Effect(last).lighting.ai_presence
           /\ climate_state.presence = Effect(last).climate.presence
           /\ Returned => PublishedSections = <<"lighting", "climate">>
    /\ (Returned /\ Len(last.published) = 2) => last.topic = T_detection

\* C31 witness: a lighting-only message has changed the lighting state and
\* been published after the climate state had been changed by an earlier
\* message.
C31_Witness ==
    /\ Returned /\ last.topic \in LightingOnlyTopics
    /\ last.outcome = "applied"
    /\ state # last.pre_state
    /\ last.pre_climate # InitialClimateState
    /\ PublishedSections = <<"lighting">>

\* C31 second witness: a climate message after a lighting change.
C31_WitnessClimate ==
    /\ Returned /\ last.topic \in ClimateOnlyTopics
    /\ climate_state # last.pre_climate
    /\ last.pre_state # InitialState
    /\ PublishedSections = <<"climate">>

\* C31 third witness: a detection message published to both sections.
C31_WitnessBoth ==
    /\ Returned /\ last.topic = T_detection
    /\ state.ai_presence = PyBool(TRUE) /\ climate_state.presence = PyBool(TRUE)
    /\ PublishedSections = <<"lighting", "climate">>

\* the presence in the two copies thread h has taken for its message: the
\* lighting copy once it is sent, the climate copy once it is taken
LightingCopy(h) == hist[h].published[1].body.ai_presence
HasClimateCopy(h) ==
    \/ Len(hist[h].published) = 2
    \/ Len(hist[h].published) = 1 /\ pc[h] = "send"
ClimateCopy(h) ==
    IF Len(hist[h].published) = 2 THEN hist[h].published[2].body.presence
    ELSE payload[h].body.presence

\* C32 (under SpecPair): whenever the lock is free, ai_presence of the
\* lighting section equals presence of the climate section; and the lighting
\* copy and the climate copy a thread takes for one detection message hold
\* the same presence when no other thread merged a detection message between
\* the two copies.
C32_PresenceAgrees ==
    /\ lock = NoThread => state.ai_presence = climate_state.presence
    /\ \A h \in PairThreads :
           (hist[h].topic = T_detection /\ HasClimateCopy(h) /\ ~between[h])
               => ClimateCopy(h) = LightingCopy(h)

\* C32 witness: a thread has taken both copies for a detection message with
\* no detection merge in between, while another thread has merged a
\* detection message carrying the other value.
C32_Witness ==
    /\ hist[1].topic = T_detection /\ Len(hist[1].published) = 2
    /\ ~between[1]
    /\ hist[2].topic = T_detection /\ hist[2].outcome = "applied"
    /\ Effect(hist[2]).climate.presence # Effect(hist[1]).climate.presence
    /\ lock = NoThread

\* C32 second witness: the two copies of a thread differ, a detection
\* message of another thread having been merged between them.
C32_WitnessBetween ==
    /\ hist[1].topic = T_detection /\ Len(hist[1].published) = 2
    /\ between[1]
    /\ ClimateCopy(1) # LightingCopy(1)

(***************************************************************************)
(* Claims about ForceGPUYOLODetector.run_detection (checked under SpecGpu)  *)
(***************************************************************************)
\* C33: every tuple passed to update_firebase with presence False has
\* person_count 0.
C33_FalseHasZeroCount ==
    (gpu.call.made /\ ~gpu.call.presence) => gpu.call.person_count = 0

\* C34: every tuple passed to update_firebase with presence True has a
\* person_count of at least 1.
C34_TrueHasPositiveCount ==
    (gpu.call.made /\ gpu.call.presence) => gpu.call.person_count >= 1

\* C34 witness: update_firebase was called with presence True on a frame that
\* came after a frame with nobody in it, the window holding two positives.
C34_Witness ==
    /\ gpu.call.made /\ gpu.call.presence
    /\ gpu.last_update = gpu.current_time
    /\ Len(deb_inputs) >= 3
    /\ \E i \in 1..Len(deb_inputs) : deb_inputs[i] = 0

\* C35: on every call of update_firebase the three presence messages are
\* published, whatever the remote store answers.
C35_AlwaysPublishesThree ==
    gpu.call.made =>
        gpu.call.published =
            presence_messages(gpu.call.presence, gpu.call.person_count,
                              gpu.call.max_confidence)

(***************************************************************************)
(* Claims about the other run_detection loops                              *)
(***************************************************************************)
\* C36 (under SpecSmart): any two consecutive calls of update_firebase by
\* SmartLightingAI.run_detection are at least firebase_interval seconds
\* apart, also when the earlier of the two failed.
C36_CallsRateLimited ==
    smart.prev_call_at # NoTime =>
        smart.call_at - smart.prev_call_at >= firebase_interval

\* the inference runs behind the positive samples of the window
PositiveRuns ==
    {realtime.window[i].run :
        i \in {j \in DOMAIN realtime.window : realtime.window[j].positive}}

\* C37 (under SpecRealtime): in AIPresenceDetector.run_detection no two
\* samples of the debounce window come from the same inference run, and once
\* the window holds three samples the stable presence is True only if two
\* different inference runs behind the window reported a person.
C37_OneSamplePerInference ==
    /\ \A i, j \in DOMAIN realtime.window :
           i # j => realtime.window[i].run # realtime.window[j].run
    /\ (Len(realtime.window) >= 3 /\ var_ret["AIPresenceDetector"])
           => Cardinality(PositiveRuns) >= 2

\* C38 (under SpecSimple): in SimplePresenceDetector.run_detection
\* last_person_detected is never later than the time of the most recent HOG
\* run that detected a person (t0); and when no motion has been detected
\* since t0, the presence of every frame later than t0 + person_timeout is
\* False.
C38_LastDetectionIsHogTime ==
    simple.hog_run_at # NoTime =>
        /\ simple.last_person_detected <= simple.hog_run_at
        /\ (/\ ~simple.motion_since
            /\ simple.current_time > simple.hog_run_at + in_ticks(person_timeout))
               => ~simple.final_presence

\* the second half of C38 alone
C38_FalseAfterTimeout ==
    (/\ simple.hog_run_at # NoTime
     /\ ~simple.motion_since
     /\ simple.current_time > simple.hog_run_at + in_ticks(person_timeout))
        => ~simple.final_presence

(***************************************************************************)
(* Claims about the remote store shared with the producers                 *)
(***************************************************************************)
AirQualityTopics == {T_quality_raw, T_quality_status}
\* the remote climate document holds what the publisher wrote last
HoldsWritten(doc) ==
    \A f \in DOMAIN aq_written : remote_get(doc, f) = aq_written[f]

\* C39 (under SpecMirror): a request of the bridge for a message that is not
\* an air-quality message leaves aqRaw and aqStatus of the remote climate
\* document as the MQ-135 publisher wrote them last.
C39_BridgeKeepsAirQuality ==
    [][(/\ pc[MainThread] = "send" /\ pc'[MainThread] # "send"
        /\ msg[MainThread].topic \notin AirQualityTopics
        /\ aq_written # NoUpdate
        /\ HoldsWritten(remote.climate))
           => HoldsWritten(remote'.climate)]_vars

\* the presence triple of a lighting payload
triple_of(body) ==
    <<body.ai_presence, body.ai_people_count, body.ai_confidence>>

\* C40 (under SpecTicks): every lighting payload the bridge sends carries the
\* presence triple of the initial state or the triple of one single call of
\* update_firebase, never values of two calls.
C40_AtomicPresenceSnapshot ==
    \A i \in DOMAIN last.published :
        last.published[i].section = "lighting" =>
            triple_of(last.published[i].body) \in
                {triple_of(InitialState)} \cup ticks

====
